---- MODULE Spec2Model ----
(***************************************************************************)
(* Results Aggregation Engine of roboStatsCPSLO: the paginated fetchers,   *)
(* the event match resolver, the score and skills classifiers and the      *)
(* batch loop of the entry scripts                                         *)
(*   vexu-data-accessor.py            ("accessor")                         *)
(*   vexu-data-accessor-updated.py    ("updated")                          *)
(*   final-robotevents-skills-calculator.py ("final")                      *)
(*   spreadsheet-updater.py           ("spreadsheet")                      *)
(*   skills-focused-updater.py        ("skills_focused")                   *)
(* The remote service is the environment: every HTTP request is answered   *)
(* by a response chosen nondeterministically.                              *)
(***************************************************************************)
EXTENDS Integers, Sequences, FiniteSets, TLC

\* ------------------------------------------------------------------ bounds
\* Largest number of pages (one item per page) of one listing of the service.
MaxPages == 3
\* Largest Retry-After value, in seconds, the service sends with a 429.
MaxRetryAfter == 2

\* --------------------------------------------------------- HTTP responses
\* What one requests.get can produce:
\*   "ok"       status 200 with a JSON body {data: [...], meta: {last_page}}
\*   "rate"     status 429, with or without a Retry-After header
\*   "notfound" status 404
\*   "error"    any other HTTP error status (5xx, 4xx)
\*   "exc"      requests.get itself raises (connection error, timeout)
\* ra is the Retry-After header: <<>> when absent, <<seconds>> when present.
Responses ==
    {[kind |-> k, ra |-> <<>>] : k \in {"ok", "notfound", "error", "exc"}}
      \cup {[kind |-> "rate", ra |-> h] :
                h \in {<<>>} \cup {<<s>> : s \in 1..MaxRetryAfter}}

\* The service's listing of `size` items, one item per page; an empty listing
\* is a single page with an empty data array (last_page = 1).  An item is
\* <<endpoint, page>>.
LastPageOf(size) == IF size = 0 THEN 1 ELSE size

PageData(ep, size, p) == IF p >= 1 /\ p <= size THEN << <<ep, p>> >> ELSE << >>

\* response.json() of a 200: the page's data array and meta.last_page.
JsonBody(ep, size, p) ==
    [isNone |-> FALSE, data |-> PageData(ep, size, p), last_page |-> LastPageOf(size)]

\* Python's None as a value of the same shape.
None == [isNone |-> TRUE, data |-> << >>, last_page |-> 0]

\* ----------------------------------------------------------- api_request
retry_count == 3

\* Seconds slept after a 429: int(response.headers.get("Retry-After", 5)).
wait_time_default2(r) == IF r.ra = << >> THEN 2 ELSE r.ra[1]

wait_time(r) == IF r.ra = << >> THEN 5 ELSE r.ra[1]

\* The state of one call of api_request: attempt is the loop variable, nreq the
\* HTTP requests issued so far, allRate whether every response so far was a 429,
\* last the latest response and slept the time.sleep that followed it (0: none).
ApiFresh ==
    [pc |-> "running", attempt |-> 0, nreq |-> 0, allRate |-> TRUE,
     last |-> [kind |-> "none", ra |-> << >>], slept |-> 0, result |-> None]

ApiIdle == [ApiFresh EXCEPT !.pc = "idle"]

\* One pass of the loop `for attempt in range(retry_count)`: the request is
\* issued, the service answers r (body: the JSON of a 200), and the code either
\* returns or goes to the next attempt.  Falling out of the loop returns None.
api_request_unbounded(a, r, body) ==
    LET c == IF a.pc = "running" THEN a ELSE ApiFresh
        seen == [c EXCEPT !.nreq = @ + 1, !.last = r,
                          !.allRate = @ /\ r.kind = "rate"]
        again(s) == [seen EXCEPT !.attempt = @ + 1, !.slept = s]
        ret(v, s) == [seen EXCEPT !.pc = "returned", !.result = v, !.slept = s]
    IN  CASE r.kind = "rate" -> again(wait_time(r))
          [] r.kind = "ok" -> ret(body, 0)
          [] r.kind = "notfound" -> ret(None, 0)
          [] OTHER -> again(2)

api_request_retry404(a, r, body) ==
    LET c == IF a.pc = "running" THEN a ELSE ApiFresh
        last_attempt == c.attempt >= retry_count - 1
        seen == [c EXCEPT !.nreq = @ + 1, !.last = r,
                          !.allRate = @ /\ r.kind = "rate"]
        again(s) == [seen EXCEPT !.attempt = @ + 1, !.slept = s]
        ret(v, s) == [seen EXCEPT !.pc = "returned", !.result = v, !.slept = s]
    IN  CASE r.kind = "rate" ->
               IF last_attempt THEN ret(None, wait_time(r)) ELSE again(wait_time(r))
          [] r.kind = "ok" -> ret(body, 0)
          [] OTHER -> IF last_attempt THEN ret(None, 0) ELSE again(2)

api_request(a, r, body) ==
    LET c == IF a.pc = "running" THEN a ELSE ApiFresh
        last_attempt == c.attempt >= retry_count - 1
        seen == [c EXCEPT !.nreq = @ + 1, !.last = r,
                          !.allRate = @ /\ r.kind = "rate"]
        again(s) == [seen EXCEPT !.attempt = @ + 1, !.slept = s]
        ret(v, s) == [seen EXCEPT !.pc = "returned", !.result = v, !.slept = s]
    IN  CASE r.kind = "rate" ->
               \* sleep, continue; after the last attempt the loop ends
               IF last_attempt THEN ret(None, wait_time(r)) ELSE again(wait_time(r))
          [] r.kind = "ok" -> ret(body, 0)
          [] r.kind = "notfound" -> ret(None, 0)
          [] OTHER ->
               \* HTTPError other than 404, or any other exception
               IF last_attempt THEN ret(None, 0) ELSE again(2)

\* ------------------------------------------------------ paginated fetchers
\* The paginated fetch functions, by the shape of their code:
\*   api loop     while True over api_request, `if not data: break`
\*   status loop  while True over requests.get, `status_code != 200: break`, no try
\*   try loop     while True inside try, `except: return events`
\*   try range    first page, then `for page in range(2, last_page + 1)` inside
\*                try, `except: return []`
ApiLoopFetchers ==
    {"updated.get_team_events", "updated.get_division_matches",
     "updated.get_team_skills"}

StatusLoopFetchers == {"spreadsheet.get_match_results"}

TryLoopFetchers == {"final.get_team_events"}

TryRangeFetchers ==
    {"final.get_team_matches", "final.get_team_skills",
     "accessor.get_division_matches"}

Fetchers ==
    ApiLoopFetchers \cup StatusLoopFetchers \cup TryLoopFetchers \cup TryRangeFetchers

VARIABLES
    fetcher,    \* the fetch function running, "none" before the first call
    fpc,        \* "idle", "loop" (about to request `page`), "done", "crashed"
    ep,         \* the endpoint (listing) being fetched
    size,       \* number of items of that listing at the service
    page,       \* params["page"] of the next request
    lastPage,   \* try range: meta.last_page of the first response
    items,      \* the list accumulated so far
    fresult,    \* the list returned (valid when fpc = "done")
    api,        \* the latest call of api_request
    reqPages,   \* history: the page of every HTTP request of this fetch
    allOk,      \* history: every response of this fetch was a 200
    failPage    \* history: the page whose request failed, 0 when none did

fetchVars ==
    <<fetcher, fpc, ep, size, page, lastPage, items, fresult, api, reqPages,
      allOk, failPage>>

FetchInit ==
    /\ fetcher = "none"
    /\ fpc = "idle"
    /\ ep = 0
    /\ size = 0
    /\ page = 1
    /\ lastPage = 0
    /\ items = << >>
    /\ fresult = << >>
    /\ api = ApiIdle
    /\ reqPages = << >>
    /\ allOk = TRUE
    /\ failPage = 0

\* A call fetcher f on endpoint e, whose listing holds s items.
FetchCall(f, e, s) ==
    /\ fetcher' = f
    /\ fpc' = "loop"
    /\ ep' = e
    /\ size' = s
    /\ page' = 1
    /\ lastPage' = 0
    /\ items' = << >>
    /\ fresult' = << >>
    /\ reqPages' = << >>
    /\ allOk' = TRUE
    /\ failPage' = 0
    /\ UNCHANGED api

FetchStart ==
    /\ fpc = "idle"
    /\ \E f \in Fetchers, s \in 0..MaxPages : FetchCall(f, 1, s)

\* `if page >= data["meta"]["last_page"]: break`
is_last_page_strict(p, last) == p > last

is_last_page(p, last) == p >= last

\* The fetch ends and returns `out` to its caller.
FetchReturn(out) == fpc' = "done" /\ fresult' = out

\* A 200 for the page requested in a while-True fetcher: extend, then break on
\* the last page or go to the next page.
LoopOnOk(body) ==
    /\ items' = items \o body.data
    /\ IF is_last_page(page, body.last_page)
         THEN FetchReturn(items \o body.data) /\ UNCHANGED page
         ELSE page' = page + 1 /\ UNCHANGED <<fpc, fresult>>
    /\ UNCHANGED failPage

\* The request of `page` failed: the loop is left with what was accumulated.
LoopOnFail(out) ==
    /\ FetchReturn(out)
    /\ failPage' = page
    /\ UNCHANGED <<page, items>>

\* get_team_events, get_division_matches, get_team_skills of
\* vexu-data-accessor-updated.py: one HTTP request of the api_request call for
\* `page`, and what the loop does when api_request returns.
updated_get_team_events ==
    /\ fpc = "loop"
    /\ fetcher \in ApiLoopFetchers
    /\ \E r \in Responses :
          LET a == api_request(api, r, JsonBody(ep, size, page)) IN
          /\ api' = a
          /\ reqPages' = Append(reqPages, page)
          /\ allOk' = (allOk /\ r.kind = "ok")
          /\ IF a.pc = "running"
               THEN UNCHANGED <<fpc, page, items, fresult, failPage>>
               ELSE IF a.result.isNone
                      THEN LoopOnFail(items)       \* if not data: break
                      ELSE LoopOnOk(a.result)
    /\ UNCHANGED <<fetcher, ep, size, lastPage>>

\* get_match_results (also get_team_events, get_skills_results) of
\* spreadsheet-updater.py: requests.get outside any try.
spreadsheet_get_match_results ==
    /\ fpc = "loop"
    /\ fetcher \in StatusLoopFetchers
    /\ \E r \in Responses :
          /\ reqPages' = Append(reqPages, page)
          /\ allOk' = (allOk /\ r.kind = "ok")
          /\ CASE r.kind = "exc" ->
                    \* the exception leaves the function
                    /\ fpc' = "crashed"
                    /\ failPage' = page
                    /\ UNCHANGED <<page, items, fresult>>
               [] r.kind = "ok" -> LoopOnOk(JsonBody(ep, size, page))
               [] OTHER -> LoopOnFail(items)        \* status_code != 200: break
    /\ UNCHANGED <<fetcher, ep, size, lastPage, api>>

\* get_team_events of final-robotevents-skills-calculator.py (and of
\* vexu-data-accessor.py): raise_for_status inside try, `return events` in except.
final_get_team_events ==
    /\ fpc = "loop"
    /\ fetcher \in TryLoopFetchers
    /\ \E r \in Responses :
          /\ reqPages' = Append(reqPages, page)
          /\ allOk' = (allOk /\ r.kind = "ok")
          /\ IF r.kind = "ok"
               THEN LoopOnOk(JsonBody(ep, size, page))
               ELSE LoopOnFail(items)
    /\ UNCHANGED <<fetcher, ep, size, lastPage, api>>

\* get_team_matches and get_team_skills of final-robotevents-skills-calculator.py
\* (and get_division_matches, get_team_skills of vexu-data-accessor.py): the
\* first request carries no page parameter (the service answers page 1), the
\* others run over range(2, last_page + 1); any exception returns [].
final_get_team_skills ==
    /\ fpc = "loop"
    /\ fetcher \in TryRangeFetchers
    /\ \E r \in Responses :
          LET body == JsonBody(ep, size, page)
              last == IF page = 1 THEN body.last_page ELSE lastPage
          IN
          /\ reqPages' = Append(reqPages, page)
          /\ allOk' = (allOk /\ r.kind = "ok")
          /\ IF r.kind = "ok"
               THEN /\ items' = items \o body.data
                    /\ lastPage' = last
                    /\ IF page >= last          \* range(2, last + 1) is exhausted
                         THEN FetchReturn(items \o body.data) /\ UNCHANGED page
                         ELSE page' = page + 1 /\ UNCHANGED <<fpc, fresult>>
                    /\ UNCHANGED failPage
               ELSE LoopOnFail(<< >>) /\ UNCHANGED lastPage
    /\ UNCHANGED <<fetcher, ep, size, api>>

FetchStep ==
    \/ updated_get_team_events
    \/ spreadsheet_get_match_results
    \/ final_get_team_events
    \/ final_get_team_skills

\* The items of pages 1..k of a listing, in page order.
RECURSIVE PagesUpTo(_, _, _)
PagesUpTo(e, s, k) ==
    IF k <= 0 THEN << >> ELSE PagesUpTo(e, s, k - 1) \o PageData(e, s, k)

\* ------------------------------------------------------- score classifier
\* Largest alliance score of a match record.
MaxScore == 2
\* Largest round number of a match record.
MaxRound == 3
\* Largest number of match records of one call of a score classifier.
MaxMatches == 2

\* team_info["id"] of the team being processed, and the id of any other team.
team_id == "team"

other_id == "other"

\* An entry of a "teams" list that is null instead of a team object.
NoneTeam == "None"

\* An alliance of a match record: the ids of its "teams" list and its "score".
Alliances1 == [teams : {<<other_id>>, <<other_id, team_id>>}, score : 0..MaxScore]

\* A further alliance, of a record that lists more than two.
Alliances3 == [teams : {<<other_id>>, <<other_id, team_id>>}, score : {MaxScore}]

\* The alliances of a record of the wrong shape: the member lists hold null.
NullEntries ==
    <<[teams |-> <<NoneTeam>>, score |-> 0], [teams |-> <<NoneTeam>>, score |-> 0]>>

\* The "alliances" list of a match record: absent or empty, one, two or three
\* alliances (three: the team, at most, in the third), or of the wrong shape.
AllianceLists ==
    {<< >>, NullEntries}
      \cup {<<a>> : a \in Alliances1}
      \cup {<<a, b>> : a \in Alliances1, b \in Alliances1}
      \cup {<<a, b, c>> : a \in {x \in Alliances1 : x.teams = <<other_id>>},
                          b \in {x \in Alliances1 : x.teams = <<other_id>>},
                          c \in Alliances3}

\* The "round" of a match record: << >> when the key is absent.
Rounds == {<< >>} \cup {<<n>> : n \in 0..MaxRound}

MatchShapes == [alliances : AllianceLists, round : Rounds]

NoMatch == [alliances |-> << >>, round |-> << >>]

\* The score classifiers of the entry scripts.
Extractors ==
    {"accessor.extract_scores_from_matches", "updated.extract_scores_from_matches",
     "final.extract_match_scores", "spreadsheet.extract_scores"}

\* `team_id in [t["id"] for t in alliance["teams"]]`
team_in(a) == \E i \in DOMAIN a.teams : a.teams[i] = team_id

\* `t["id"]` and `team.get("id")` raise on an entry that is null.
has_null(a) == \E i \in DOMAIN a.teams : a.teams[i] = NoneTeam

\* The scan of the member lists, alliance by alliance, reaches a null entry
\* before it finds the team.
scan_raises(m) ==
    \E i \in DOMAIN m.alliances :
        /\ has_null(m.alliances[i])
        /\ \A j \in 1..(i - 1) : ~team_in(m.alliances[j])
        /\ \A k \in DOMAIN m.alliances[i].teams :
               m.alliances[i].teams[k] = team_id
                 => \E n \in 1..(k - 1) : m.alliances[i].teams[n] = NoneTeam

\* The scan without its `break`: the last alliance that lists the team.
team_alliance_last(m) ==
    IF \E i \in DOMAIN m.alliances : team_in(m.alliances[i])
      THEN CHOOSE i \in DOMAIN m.alliances :
             /\ team_in(m.alliances[i])
             /\ \A j \in DOMAIN m.alliances : team_in(m.alliances[j]) => j <= i
      ELSE 0

\* The enumerate loop over match["alliances"]: the index (from 1) of the first
\* alliance that lists the team, 0 (team_alliance is None) when none does.
team_alliance(m) ==
    IF \E i \in DOMAIN m.alliances : team_in(m.alliances[i])
      THEN CHOOSE i \in DOMAIN m.alliances :
             /\ team_in(m.alliances[i])
             /\ \A j \in DOMAIN m.alliances : team_in(m.alliances[j]) => i <= j
      ELSE 0

\* `alliance_idx = 0 if team_on_red else 1` (indices from 1 here).
alliance_idx_swapped(m) == IF team_in(m.alliances[1]) THEN 2 ELSE 1

alliance_idx(m) == IF team_in(m.alliances[1]) THEN 1 ELSE 2

\* match.get("round", 0)
round_num(m) == IF m.round = << >> THEN 0 ELSE m.round[1]

\* `if round_num == 1: qual_scores.append(score) else: elims_scores.append(score)`
round_bucket_1or2(n) == IF n = 1 \/ n = 2 THEN "qual" ELSE "elims"

round_bucket(n) == IF n = 1 THEN "qual" ELSE "elims"

\* `if round_num == 1 or round_num == 2: ... elif round_num > 2: ...` of the
\* updated accessor: a round number below 1 appends nothing.
updated_round_bucket_no2(n) ==
    IF n = 1 THEN "qual" ELSE IF n > 2 THEN "elims" ELSE "none"

updated_round_bucket(n) ==
    IF n = 1 \/ n = 2 THEN "qual" ELSE IF n > 2 THEN "elims" ELSE "none"

\* What one pass of the loop body does with match m: the bucket the score is
\* appended to ("none": the match is skipped by a continue or a caught
\* exception) and the score; "raise": an exception leaves the classifier.
Skip == [bucket |-> "none", score |-> 0]

Raise == [bucket |-> "raise", score |-> 0]

Put(b, s) == [bucket |-> b, score |-> s]

\* extract_scores_from_matches of vexu-data-accessor.py
accessor_extract_scores_from_matches(m) ==
    IF Len(m.alliances) < 2 THEN Skip
    ELSE IF scan_raises(m) THEN Skip
    ELSE IF team_alliance(m) = 0 THEN Skip
    ELSE Put(round_bucket(round_num(m)), m.alliances[team_alliance(m)].score)

\* extract_scores_from_matches of vexu-data-accessor-updated.py
updated_extract_scores_from_matches(m) ==
    IF Len(m.alliances) < 2 THEN Skip
    ELSE IF scan_raises(m) THEN Skip
    ELSE IF team_alliance(m) = 0 THEN Skip
    ELSE Put(updated_round_bucket(round_num(m)),
             m.alliances[team_alliance(m)].score)

\* extract_match_scores of final-robotevents-skills-calculator.py: no check of
\* the number of alliances.
final_extract_match_scores(m) ==
    IF scan_raises(m) THEN Skip
    ELSE IF team_alliance(m) = 0 THEN Skip
    ELSE Put(round_bucket(round_num(m)), m.alliances[team_alliance(m)].score)

\* extract_scores of spreadsheet-updater.py: alliances[0] and alliances[1] are
\* indexed (IndexError and KeyError are caught and the match skipped), and
\* match["round"] is read without a default.  The TypeError of t["id"] on a
\* null entry is not caught.
spreadsheet_extract_scores(m) ==
    IF Len(m.alliances) < 1 THEN Skip
    ELSE IF has_null(m.alliances[1]) THEN Raise
    ELSE IF Len(m.alliances) < 2 THEN Skip
    ELSE IF has_null(m.alliances[2]) THEN Raise
    ELSE IF ~(team_in(m.alliances[1]) \/ team_in(m.alliances[2])) THEN Skip
    ELSE IF m.round = << >> THEN Skip
    ELSE Put(round_bucket(m.round[1]), m.alliances[alliance_idx(m)].score)

LoopBody(x, m) ==
    CASE x = "accessor.extract_scores_from_matches" ->
             accessor_extract_scores_from_matches(m)
      [] x = "updated.extract_scores_from_matches" ->
             updated_extract_scores_from_matches(m)
      [] x = "final.extract_match_scores" -> final_extract_match_scores(m)
      [] x = "spreadsheet.extract_scores" -> spreadsheet_extract_scores(m)

\* The number of alliances of m that list the team.
TeamAlliances(m) == Cardinality({i \in DOMAIN m.alliances : team_in(m.alliances[i])})

\* A record that does not reference exactly two alliances, carries no valid
\* round number or is of the wrong shape.
Malformed(m) ==
    \/ Len(m.alliances) # 2
    \/ round_num(m) < 1
    \/ \E i \in DOMAIN m.alliances : has_null(m.alliances[i])

VARIABLES
    extractor,    \* the score classifier running, "none" before the call
    xpc,          \* "idle", "for" (at the loop head), "body", "returned",
                  \* "raised" (an exception left the classifier)
    cur,          \* the match bound by `for match in matches`
    qual_scores,  \* the qualification bucket
    elims_scores, \* the elimination bucket
    nIn,          \* history: matches processed so far
    nSkippedMalformed, \* history: malformed matches that appended nothing
    onlyOne       \* history: every match so far listed the team in exactly one alliance

extractVars ==
    <<extractor, xpc, cur, qual_scores, elims_scores, nIn, nSkippedMalformed,
      onlyOne>>

ExtractInit ==
    /\ extractor = "none"
    /\ xpc = "idle"
    /\ cur = NoMatch
    /\ qual_scores = << >>
    /\ elims_scores = << >>
    /\ nIn = 0
    /\ nSkippedMalformed = 0
    /\ onlyOne = TRUE

\* A score classifier is called on a list of at most MaxMatches records.
ExtractStart ==
    /\ xpc = "idle"
    /\ \E x \in Extractors : extractor' = x
    /\ xpc' = "for"
    /\ UNCHANGED <<cur, qual_scores, elims_scores, nIn, nSkippedMalformed, onlyOne>>

\* `for match in matches:` binds the next record of the input.
ExtractFor ==
    /\ xpc = "for"
    /\ nIn < MaxMatches
    /\ \E m \in MatchShapes : cur' = m
    /\ xpc' = "body"
    /\ UNCHANGED <<extractor, qual_scores, elims_scores, nIn, nSkippedMalformed,
                   onlyOne>>

\* The loop body on the record bound.
ExtractBody ==
    /\ xpc = "body"
    /\ LET out == LoopBody(extractor, cur) IN
         /\ qual_scores' = IF out.bucket = "qual"
                             THEN Append(qual_scores, out.score) ELSE qual_scores
         /\ elims_scores' = IF out.bucket = "elims"
                              THEN Append(elims_scores, out.score) ELSE elims_scores
         /\ nSkippedMalformed' =
              IF Malformed(cur) /\ out.bucket = "none"
                THEN nSkippedMalformed + 1 ELSE nSkippedMalformed
         /\ xpc' = IF out.bucket = "raise" THEN "raised" ELSE "for"
    /\ nIn' = nIn + 1
    /\ onlyOne' = (onlyOne /\ TeamAlliances(cur) = 1)
    /\ cur' = NoMatch
    /\ UNCHANGED extractor

\* The input is exhausted: `return qual_scores, elims_scores`.
ExtractReturn ==
    /\ xpc = "for"
    /\ xpc' = "returned"
    /\ UNCHANGED <<extractor, cur, qual_scores, elims_scores, nIn,
                   nSkippedMalformed, onlyOne>>

\* ------------------------------------------------------------------ numbers
\* sum(s) of a list of integers.
RECURSIVE sum(_)
sum(s) == IF s = << >> THEN 0 ELSE s[1] + sum(Tail(s))

\* max(s) of a non-empty list of integers.
max(s) == CHOOSE m \in {s[i] : i \in DOMAIN s} : \A i \in DOMAIN s : s[i] <= m

RECURSIVE gcd(_, _)
gcd(a, b) == IF b = 0 THEN a ELSE gcd(b, a % b)

\* The quotient n / d (n >= 0, d > 0) of Python's true division, kept exact as
\* a fraction in lowest terms; the rounding of the float to 53 bits is left out.
Div(n, d) == [num |-> n \div gcd(n, d), den |-> d \div gcd(n, d)]

\* The integer 0 the statistics of TeamData start with.
Zero == [num |-> 0, den |-> 1]

\* sum(s) / len(s) if s else the initial 0.
average_last(s) == IF s = << >> THEN Zero ELSE Div(s[Len(s)], 1)

average(s) == IF s = << >> THEN Zero ELSE Div(sum(s), Len(s))

\* ------------------------------------------------------ skills classifier
\* Largest number of skills records of one event.
MaxSkills == 3

\* The "type" of a skills record: a bare string, a nested object with an "id",
\* or absent.
SkillTypes ==
    {[form |-> "str", tag |-> t, id |-> 0] : t \in {"driver", "programming", "other"}}
      \cup {[form |-> "obj", tag |-> "", id |-> i] : i \in 0..3}
      \cup {[form |-> "none", tag |-> "", id |-> 0]}

SkillShapes == [type : SkillTypes, score : 0..MaxScore]

NoSkill == [type |-> [form |-> "none", tag |-> "", id |-> 0], score |-> 0]

\* The loops that sort the skills records of an event by type.
StringSkillsClassifiers ==
    {"final.process_team_data", "updated.process_team_data",
     "accessor.process_team_data"}

ObjectSkillsClassifiers ==
    {"skills_focused.fetch_team_data", "skills_focused.extract_combined_skills"}

SkillsClassifiers == StringSkillsClassifiers \cup ObjectSkillsClassifiers

\* extract_skills_scores of spreadsheet-updater.py looks at no type at all.
UntypedSkillsExtractors == {"spreadsheet.extract_skills_scores"}

\* Largest number of events of one team.
MaxEvents == 2

\* process_team_data of the final calculator and of both accessors:
\*   skill_type = skill.get("type")
\*   if skill_type == "driver": ... elif skill_type == "programming": ...
\* A nested object is equal to neither string.
final_skill_type(sk) ==
    IF sk.type.form = "str" /\ sk.type.tag = "driver" THEN "driver"
    ELSE IF sk.type.form = "str" /\ sk.type.tag = "programming" THEN "programming"
    ELSE "none"

\* fetch_team_data and extract_combined_skills of the skills-focused updater:
\*   if not isinstance(skill_type, dict): continue
\*   type_id = skill_type.get("id", 0); 1 is driver, 2 is programming
\* (fetch_team_data reads an absent type as {}, extract_combined_skills as None:
\* both append nothing).
skills_focused_skill_type(sk) ==
    IF sk.type.form # "obj" THEN "none"
    ELSE IF sk.type.id = 1 THEN "driver"
    ELSE IF sk.type.id = 2 THEN "programming"
    ELSE "none"

SkillType(c, sk) ==
    IF c \in StringSkillsClassifiers
      THEN final_skill_type(sk)
      ELSE skills_focused_skill_type(sk)

\* The combined entry of one event:
\*   best_driver = max(driver_scores) if driver_scores else 0
\*   best_programming = max(programming_scores) if programming_scores else 0
\*   if best_driver > 0 or best_programming > 0:
\*       team.combined_skills.append(best_driver + best_programming)
\* as the list of the entries appended.
combined_for_event_always(ds, ps) ==
    LET best_driver == IF ds # << >> THEN max(ds) ELSE 0
        best_programming == IF ps # << >> THEN max(ps) ELSE 0
    IN  <<best_driver + best_programming>>

combined_for_event_xor(ds, ps) ==
    LET best_driver == IF ds # << >> THEN max(ds) ELSE 0
        best_programming == IF ps # << >> THEN max(ps) ELSE 0
    IN  IF (best_driver > 0) # (best_programming > 0)
          THEN <<best_driver + best_programming>>
          ELSE << >>

combined_for_event(ds, ps) ==
    LET best_driver == IF ds # << >> THEN max(ds) ELSE 0
        best_programming == IF ps # << >> THEN max(ps) ELSE 0
    IN  IF best_driver > 0 \/ best_programming > 0
          THEN <<best_driver + best_programming>>
          ELSE << >>

VARIABLES
    classifier,         \* the skills loop running, "none" before the call
    kpc,                \* "idle", "for", "body", "returned", "done"
    skill,              \* the record bound by `for skill in skills`
    driver_scores,      \* the event's driver scores
    programming_scores, \* the event's programming scores
    scores,             \* spreadsheet: the event's scores of any type
    combined_skills,    \* team.combined_skills
    skill_scores,       \* spreadsheet: team.skill_scores
    skill_avg,          \* team.skill_avg
    nSkillEvents,       \* events whose skills were processed so far
    runs,               \* history: records of this event that are a driver or
                        \* a programming run for the script (for the
                        \* spreadsheet updater: in either wire form)
    eventEntries        \* history: driver best + programming best of every
                        \* event processed that has a positive best

skillsVars ==
    <<classifier, kpc, skill, driver_scores, programming_scores, scores,
      combined_skills, skill_scores, skill_avg, nSkillEvents, runs, eventEntries>>

SkillsInit ==
    /\ classifier = "none"
    /\ kpc = "idle"
    /\ skill = NoSkill
    /\ driver_scores = << >>
    /\ programming_scores = << >>
    /\ scores = << >>
    /\ combined_skills = << >>
    /\ skill_scores = << >>
    /\ skill_avg = Zero
    /\ nSkillEvents = 0
    /\ runs = [driver |-> << >>, programming |-> << >>]
    /\ eventEntries = << >>

\* The two wire forms of a driver run and of a programming run.
IsDriver(sk) ==
    \/ (sk.type.form = "str" /\ sk.type.tag = "driver")
    \/ (sk.type.form = "obj" /\ sk.type.id = 1)

IsProgramming(sk) ==
    \/ (sk.type.form = "str" /\ sk.type.tag = "programming")
    \/ (sk.type.form = "obj" /\ sk.type.id = 2)

\* What kind of run a record is: as the script reads it, and for the script
\* that reads no type, as either wire form says.
RunKind(c, sk) ==
    IF c \in SkillsClassifiers THEN SkillType(c, sk)
    ELSE IF IsDriver(sk) THEN "driver"
    ELSE IF IsProgramming(sk) THEN "programming"
    ELSE "none"

\* The skills of the first event of a team are processed.
SkillsStart ==
    /\ kpc = "idle"
    /\ \E c \in SkillsClassifiers \cup UntypedSkillsExtractors : classifier' = c
    /\ kpc' = "for"
    /\ UNCHANGED <<skill, driver_scores, programming_scores, scores,
                   combined_skills, skill_scores, skill_avg, nSkillEvents, runs,
                   eventEntries>>

\* `for skill in skills:` binds the next record.
SkillsFor ==
    /\ kpc = "for"
    /\ Len(driver_scores) + Len(programming_scores) + Len(scores) < MaxSkills
    /\ \E sk \in SkillShapes : skill' = sk
    /\ kpc' = "body"
    /\ UNCHANGED <<classifier, driver_scores, programming_scores, scores,
                   combined_skills, skill_scores, skill_avg, nSkillEvents, runs,
                   eventEntries>>

\* The loop body on the record bound.
SkillsBody ==
    /\ kpc = "body"
    /\ IF classifier \in UntypedSkillsExtractors
         THEN \* if "score" in skill: scores.append(skill["score"])
              /\ scores' = Append(scores, skill.score)
              /\ UNCHANGED <<driver_scores, programming_scores>>
         ELSE LET t == SkillType(classifier, skill) IN
              /\ driver_scores' = IF t = "driver"
                                    THEN Append(driver_scores, skill.score)
                                    ELSE driver_scores
              /\ programming_scores' = IF t = "programming"
                                         THEN Append(programming_scores, skill.score)
                                         ELSE programming_scores
              /\ UNCHANGED scores
    /\ runs' = LET k == RunKind(classifier, skill) IN
               IF k = "none" THEN runs
               ELSE [runs EXCEPT ![k] = Append(@, skill.score)]
    /\ skill' = NoSkill
    /\ kpc' = "for"
    /\ UNCHANGED <<classifier, combined_skills, skill_scores, skill_avg,
                   nSkillEvents, eventEntries>>

\* The records are exhausted: the event's combined entry is appended to
\* team.combined_skills (spreadsheet: team.skill_scores.extend(skill_scores)).
SkillsReturn ==
    /\ kpc = "for"
    /\ kpc' = "returned"
    /\ IF classifier \in UntypedSkillsExtractors
         THEN /\ skill_scores' = skill_scores \o scores
              /\ UNCHANGED combined_skills
         ELSE /\ combined_skills' =
                   combined_skills \o combined_for_event(driver_scores, programming_scores)
              /\ UNCHANGED skill_scores
    /\ nSkillEvents' = nSkillEvents + 1
    /\ eventEntries' =
         LET d == {runs.driver[i] : i \in DOMAIN runs.driver}
             g == {runs.programming[i] : i \in DOMAIN runs.programming}
             bd == IF d = {} THEN 0 ELSE CHOOSE x \in d : \A y \in d : y <= x
             bg == IF g = {} THEN 0 ELSE CHOOSE x \in g : \A y \in g : y <= x
         IN  IF bd + bg > 0 THEN Append(eventEntries, bd + bg) ELSE eventEntries
    /\ UNCHANGED <<classifier, skill, driver_scores, programming_scores, scores,
                   skill_avg, runs>>

\* `for event in events:` goes to the next event, whose skills lists start
\* empty.
SkillsNextEvent ==
    /\ kpc = "returned"
    /\ nSkillEvents < MaxEvents
    /\ kpc' = "for"
    /\ driver_scores' = << >>
    /\ programming_scores' = << >>
    /\ scores' = << >>
    /\ runs' = [driver |-> << >>, programming |-> << >>]
    /\ UNCHANGED <<classifier, skill, combined_skills, skill_scores, skill_avg,
                   nSkillEvents, eventEntries>>

\* calculate_stats after the last event:
\*   if self.combined_skills: self.skill_avg = sum(...) / len(...)
\* (spreadsheet: over self.skill_scores).
calculate_stats_skills ==
    /\ kpc = "returned"
    /\ kpc' = "done"
    /\ skill_avg' = IF classifier \in UntypedSkillsExtractors
                      THEN average(skill_scores)
                      ELSE average(combined_skills)
    /\ UNCHANGED <<classifier, skill, driver_scores, programming_scores, scores,
                   combined_skills, skill_scores, nSkillEvents, runs, eventEntries>>

\* ---------------------------------------------------- event match resolver
\* Largest number of divisions of an event.
MaxDivs == 2
\* Largest number of matches (one per page) of one listing of an event.
MaxDivMatches == 2

Resolvers == {"accessor.get_event_matches", "updated.get_event_matches"}

\* The divisions of an event: division d holds DivisionLists[d] matches of the
\* team.
DivisionLists == UNION {[1..n -> 0..MaxDivMatches] : n \in 0..MaxDivs}

\* The endpoint of the flat listing events/{id}/matches; the listing of
\* division d is endpoint d.
FlatEp == 0

VARIABLES
    resolver,   \* the get_event_matches running, "none" before the call
    rpc,        \* "idle", "details", "flat", "divisions", "in_division",
                \* "alt_divisions", "alt_division", "returned"
    divSizes,   \* the service: matches of the team in each division
    is_vexu,    \* program_id == VEXU_PROGRAM_ID, read from the event details
    flatSize,   \* history: matches of the team in the flat listing answered
    divisions,  \* the division ids obtained from the divisions endpoint
    divIdx,     \* position of the loop `for division in divisions`
    matches,    \* the list accumulated, returned when rpc = "returned"
    rapi,       \* the api_request call made by the resolver itself
    flatKind,   \* history: the response to the flat request, "none" before it
    divAsked,   \* history: a request was sent to a division endpoint
    rAllOk      \* history: every response other than the flat one was a 200

resolveVars ==
    <<resolver, rpc, flatSize, divSizes, is_vexu, divisions, divIdx, matches,
      rapi, flatKind, divAsked, rAllOk>>

ResolveInit ==
    /\ resolver = "none"
    /\ rpc = "idle"
    /\ flatSize = 0
    /\ divSizes = << >>
    /\ is_vexu = FALSE
    /\ divisions = << >>
    /\ divIdx = 0
    /\ matches = << >>
    /\ rapi = ApiIdle
    /\ flatKind = "none"
    /\ divAsked = FALSE
    /\ rAllOk = TRUE

\* The locals of a fetch that has returned are gone.
FetchForget ==
    /\ fetcher' = "none"
    /\ fpc' = "idle"
    /\ ep' = 0
    /\ size' = 0
    /\ page' = 1
    /\ lastPage' = 0
    /\ items' = << >>
    /\ fresult' = << >>
    /\ api' = ApiIdle
    /\ reqPages' = << >>
    /\ allOk' = TRUE
    /\ failPage' = 0

\* get_event_matches(event_id, team_id) is called.
ResolveStart ==
    /\ rpc = "idle"
    /\ \E v \in Resolvers, ds \in DivisionLists :
          /\ resolver' = v
          /\ divSizes' = ds
          /\ rpc' = IF v = "updated.get_event_matches" THEN "details" ELSE "flat"
    /\ UNCHANGED <<flatSize, is_vexu, divisions, divIdx, matches, rapi, flatKind,
                   divAsked, rAllOk>>
    /\ UNCHANGED fetchVars

\* updated: event_data = get_event_details(event_id), one HTTP request of its
\* api_request call; `if not event_data: return matches`, else
\* is_vexu = program_id == VEXU_PROGRAM_ID from the details answered.
updated_get_event_details ==
    /\ rpc = "details"
    /\ \E r \in Responses, x \in BOOLEAN :
          LET a == api_request(rapi, r, JsonBody(FlatEp, 0, 1)) IN
          /\ rAllOk' = (rAllOk /\ r.kind = "ok")
          /\ IF a.pc = "running"
               THEN rapi' = a /\ UNCHANGED <<rpc, is_vexu>>
               ELSE /\ rapi' = ApiIdle
                    /\ IF a.result.isNone
                         THEN rpc' = "returned" /\ UNCHANGED is_vexu
                         ELSE rpc' = "flat" /\ is_vexu' = x
    /\ UNCHANGED <<resolver, flatSize, divSizes, divisions, divIdx, matches,
                   flatKind, divAsked>>
    /\ UNCHANGED fetchVars

\* The flat listing with its `return matches` lost: a 200 falls through to the
\* divisions as any other answer does.
get_event_matches_falls_through ==
    /\ rpc = "flat"
    /\ \E r \in Responses, fs \in 0..MaxDivMatches :
          /\ flatKind' = r.kind
          /\ IF r.kind = "ok"
               THEN /\ flatSize' = fs
                    /\ matches' = matches \o JsonBody(FlatEp, fs, 1).data
                    /\ rpc' = "divisions"
               ELSE /\ rpc' = "divisions"
                    /\ UNCHANGED <<flatSize, matches>>
    /\ UNCHANGED <<resolver, divSizes, is_vexu, divisions, divIdx, rapi, divAsked,
                   rAllOk>>
    /\ UNCHANGED fetchVars

\* The flat listing events/{id}/matches?team=..., one requests.get inside try:
\*   if response.status_code == 200:
\*       matches.extend(data["data"]); return matches
\* Any other status and any exception fall through to the divisions.
get_event_matches ==
    /\ rpc = "flat"
    /\ \E r \in Responses, fs \in 0..MaxDivMatches :
          /\ flatKind' = r.kind
          /\ IF r.kind = "ok"
               THEN /\ flatSize' = fs
                    /\ matches' = matches \o JsonBody(FlatEp, fs, 1).data
                    /\ rpc' = "returned"
               ELSE /\ rpc' = "divisions"
                    /\ UNCHANGED <<flatSize, matches>>
    /\ UNCHANGED <<resolver, divSizes, is_vexu, divisions, divIdx, rapi, divAsked,
                   rAllOk>>
    /\ UNCHANGED fetchVars

\* data.get("data", []) of the divisions endpoint.
DivisionIds == [i \in 1..Len(divSizes) |-> i]

\* The loop over the divisions has ended with the list m: the accessor returns
\* it; the updated accessor first tries
\*   if not matches and is_vexu: ...
AfterDivisions(m) ==
    rpc' = IF resolver = "updated.get_event_matches" /\ m = << >> /\ is_vexu
             THEN "alt_divisions"
             ELSE "returned"

\* `if divisions: for division in divisions:` enters get_division_matches for
\* the first division, or skips the loop.
EnterDivisions(f, divs) ==
    /\ divisions' = divs
    /\ IF divs # << >>
         THEN /\ divIdx' = 1
              /\ rpc' = "in_division"
              /\ FetchCall(f, divs[1], divSizes[divs[1]])
         ELSE /\ AfterDivisions(matches)
              /\ UNCHANGED divIdx
              /\ UNCHANGED fetchVars

\* accessor: get_event_divisions, one requests.get with raise_for_status inside
\* try, `except: return []`.
accessor_get_event_divisions ==
    /\ rpc = "divisions"
    /\ resolver = "accessor.get_event_matches"
    /\ \E r \in Responses :
          /\ rAllOk' = (rAllOk /\ r.kind = "ok")
          /\ EnterDivisions("accessor.get_division_matches",
                            IF r.kind = "ok" THEN DivisionIds ELSE << >>)
    /\ divAsked' = TRUE
    /\ UNCHANGED <<resolver, flatSize, divSizes, is_vexu, matches, rapi, flatKind>>

\* updated: get_event_divisions, one HTTP request of its api_request call;
\* `if data: return data.get("data", [])`, else [].
updated_get_event_divisions ==
    /\ rpc = "divisions"
    /\ resolver = "updated.get_event_matches"
    /\ \E r \in Responses :
          LET a == api_request(rapi, r, JsonBody(FlatEp, 0, 1)) IN
          /\ rAllOk' = (rAllOk /\ r.kind = "ok")
          /\ IF a.pc = "running"
               THEN /\ rapi' = a
                    /\ UNCHANGED <<rpc, divisions, divIdx>>
                    /\ UNCHANGED fetchVars
               ELSE /\ rapi' = ApiIdle
                    /\ EnterDivisions("updated.get_division_matches",
                                      IF a.result.isNone THEN << >> ELSE DivisionIds)
    /\ divAsked' = TRUE
    /\ UNCHANGED <<resolver, flatSize, divSizes, is_vexu, matches, flatKind>>

\* get_division_matches has returned division_matches:
\*   if division_matches: matches.extend(division_matches)
\* and the loop goes to the next division or ends.
get_division_matches_returns ==
    /\ rpc = "in_division"
    /\ fpc = "done"
    /\ matches' = matches \o fresult
    /\ rAllOk' = (rAllOk /\ allOk)
    /\ IF divIdx < Len(divisions)
         THEN /\ divIdx' = divIdx + 1
              /\ FetchCall(fetcher, divisions[divIdx + 1],
                           divSizes[divisions[divIdx + 1]])
              /\ UNCHANGED rpc
         ELSE /\ AfterDivisions(matches \o fresult)
              /\ FetchForget
              /\ UNCHANGED divIdx
    /\ UNCHANGED <<resolver, flatSize, divSizes, is_vexu, divisions, rapi, flatKind,
                   divAsked>>

\* updated, third strategy: the divisions endpoint again through api_request
\*   if rankings_data and "data" in rankings_data: for division in ...
updated_alt_divisions ==
    /\ rpc = "alt_divisions"
    /\ \E r \in Responses :
          LET a == api_request(rapi, r, JsonBody(FlatEp, 0, 1))
              divs == IF a.result.isNone THEN << >> ELSE DivisionIds
          IN
          /\ rAllOk' = (rAllOk /\ r.kind = "ok")
          /\ IF a.pc = "running"
               THEN rapi' = a /\ UNCHANGED <<rpc, divisions, divIdx>>
               ELSE /\ rapi' = ApiIdle
                    /\ divisions' = divs
                    /\ IF divs # << >>
                         THEN divIdx' = 1 /\ rpc' = "alt_division"
                         ELSE rpc' = "returned" /\ UNCHANGED divIdx
    /\ divAsked' = TRUE
    /\ UNCHANGED <<resolver, flatSize, divSizes, is_vexu, matches, flatKind>>
    /\ UNCHANGED fetchVars

\* updated, third strategy: one api_request per division, its first page only
\*   if div_matches and "data" in div_matches: matches.extend(...)
updated_alt_division_matches ==
    /\ rpc = "alt_division"
    /\ \E r \in Responses :
          LET d == divisions[divIdx]
              a == api_request(rapi, r, JsonBody(d, divSizes[d], 1))
          IN
          /\ rAllOk' = (rAllOk /\ r.kind = "ok")
          /\ IF a.pc = "running"
               THEN rapi' = a /\ UNCHANGED <<rpc, divIdx, matches>>
               ELSE /\ rapi' = ApiIdle
                    /\ matches' = matches \o a.result.data
                    /\ IF divIdx < Len(divisions)
                         THEN divIdx' = divIdx + 1 /\ UNCHANGED rpc
                         ELSE rpc' = "returned" /\ UNCHANGED divIdx
    /\ divAsked' = TRUE
    /\ UNCHANGED <<resolver, flatSize, divSizes, is_vexu, divisions, flatKind>>
    /\ UNCHANGED fetchVars

\* The matches of the team in all divisions 1..k, in division order.
RECURSIVE DivisionMatches(_)
DivisionMatches(k) ==
    IF k <= 0 THEN << >>
    ELSE DivisionMatches(k - 1) \o PagesUpTo(k, divSizes[k], divSizes[k])

\* -------------------------------------------------------------- batch loop
\* Largest number of team codes entered for one batch.
MaxTeams == 2

Codes == {"A", "B"}

\* The main() of every entry script runs the same loop
\*   for code in team_codes:
\*       team = process_team_data(code, season_id)   (fetch_team_data)
\*       if team: teams[code] = team
\* around its own get_team_info.
UnguardedMains == {"skills_focused.main", "spreadsheet.main"}

GuardedMains == {"final.main", "updated.main", "accessor.main"}

Mains == UnguardedMains \cup GuardedMains

\* How the service settles the identity lookup teams?number=code:
\*   "found"   status 200, data holds the team
\*   "empty"   status 200, data is []
\*   "non200"  any other status
\*   "exc"     requests.get raises
\* (for api_request, the answer of the attempt that ends the call).
LookupOutcomes == {"found", "empty", "non200", "exc"}

\* get_team_info of skills-focused-updater.py and spreadsheet-updater.py:
\* requests.get outside any try, so its exception leaves the function.
skills_focused_get_team_info(o) ==
    CASE o = "exc" -> "raise"
      [] o = "non200" -> "None"
      [] o = "empty" -> "None"
      [] OTHER -> "info"

\* get_team_info of the final calculator and of vexu-data-accessor.py: the
\* request, raise_for_status and the indexing are inside try, `except: return
\* None`.
final_get_team_info(o) == IF o = "found" THEN "info" ELSE "None"

\* get_team_info of vexu-data-accessor-updated.py: api_request returns None for
\* every failure; `if not data or not data.get("data"): return None`.
updated_get_team_info(o) == IF o = "found" THEN "info" ELSE "None"

get_team_info(v, o) ==
    IF v \in UnguardedMains THEN skills_focused_get_team_info(o)
    ELSE IF v = "updated.main" THEN updated_get_team_info(o)
    ELSE final_get_team_info(o)

\* teams.append over a list in place of the assignment to a dict key.
DictSet_append(t, code, team) == Append(t, [code |-> code, team |-> team])

\* teams[code] = team on a dict kept as the sequence of its items in insertion
\* order: an existing key keeps its position and takes the new value.
DictSet(t, code, team) ==
    IF \E i \in DOMAIN t : t[i].code = code
      THEN [i \in DOMAIN t |-> IF t[i].code = code
                                 THEN [code |-> code, team |-> team]
                                 ELSE t[i]]
      ELSE Append(t, [code |-> code, team |-> team])

VARIABLES
    main,        \* the entry script running, "none" before the batch
    bpc,         \* "idle", "lookup", "process", "done", "crashed"
    team_codes,  \* the codes entered
    bidx,        \* position of the loop `for code in team_codes`
    teams,       \* the dict teams; a team is named by the iteration that built it
    lookups      \* history: how the lookup of each code so far was settled

batchVars == <<main, bpc, team_codes, bidx, teams, lookups>>

BatchInit ==
    /\ main = "none"
    /\ bpc = "idle"
    /\ team_codes = << >>
    /\ bidx = 0
    /\ teams = << >>
    /\ lookups = << >>

\* main() has read the team codes and enters the loop.
BatchStart ==
    /\ bpc = "idle"
    /\ \E v \in Mains, n \in 1..MaxTeams :
          \E cs \in [1..n -> Codes] :
             /\ main' = v
             /\ team_codes' = cs
    /\ bidx' = 1
    /\ bpc' = "lookup"
    /\ UNCHANGED <<teams, lookups>>

\* The next iteration calls process_team_data, which calls get_team_info:
\*   if not team_info: return None
\* and main skips a None.
BatchLookup ==
    /\ bpc = "lookup"
    /\ bidx <= Len(team_codes)
    /\ \E o \in LookupOutcomes :
          LET info == get_team_info(main, o) IN
          /\ lookups' = Append(lookups, o)
          /\ CASE info = "raise" -> bpc' = "crashed" /\ UNCHANGED bidx
               [] info = "None" -> bidx' = bidx + 1 /\ UNCHANGED bpc
               [] OTHER -> bpc' = "process" /\ UNCHANGED bidx
    /\ UNCHANGED <<main, team_codes, teams>>

\* The rest of process_team_data after a successful lookup, and
\* `teams[code] = team`.  In the unguarded scripts get_team_events calls
\* requests.get outside any try, so a request exception leaves the loop; every
\* other script catches it and still returns the team.
BatchProcess ==
    /\ bpc = "process"
    /\ \E raised \in BOOLEAN :
          IF raised /\ main \in UnguardedMains
            THEN /\ bpc' = "crashed"
                 /\ UNCHANGED <<bidx, teams>>
            ELSE /\ teams' = DictSet(teams, team_codes[bidx], bidx)
                 /\ bidx' = bidx + 1
                 /\ bpc' = "lookup"
    /\ UNCHANGED <<main, team_codes, lookups>>

\* The loop is exhausted: main goes on to the report.
BatchDone ==
    /\ bpc = "lookup"
    /\ bidx > Len(team_codes)
    /\ bpc' = "done"
    /\ UNCHANGED <<main, team_codes, bidx, teams, lookups>>

\* ----------------------------------------------------- process_team_data
\* process_team_data (fetch_team_data) of the script whose main runs the batch
\* loop: the events of the team found by the lookup, one after the other, then
\* the statistics.  The skills records of an event are sorted by the skills
\* classifier above; here the event's skills are one step.
\* Largest number of qualification scores of one event.
MaxEventScores == 2

\* Scripts that read the rankings endpoint of an event, and scripts that read
\* its matches.
RankingMains == {"final.main", "skills_focused.main"}

MatchMains == {"accessor.main", "updated.main", "final.main", "spreadsheet.main"}

\* event["name"] of the j-th event of the listing of a team.
EventName(j) == <<"E1", "E2", "E3", "E4">>[j]

\* The ranking of the team at an event: none, or average_points and the
\* high_score, which is not below the average.
Rankings ==
    {<< >>} \cup UNION {{<<[avg |-> a, high |-> h]>> : h \in a..MaxScore} :
                           a \in 0..MaxScore}

\* What the score classifier returns for the matches of an event.
QualLists == UNION {[1..n -> 0..MaxScore] : n \in 0..MaxEventScores}

ElimLists == {<< >>} \cup {<<x>> : x \in 0..MaxScore}

\*   if event_best > team.best_event_score:
\*       team.best_event_score = event_best; team.best_event_name = event_name
best_event_update_ge(best, name, event_best) ==
    IF event_best >= best.score THEN [name |-> name, score |-> event_best] ELSE best

best_event_update(best, name, event_best) ==
    IF event_best > best.score THEN [name |-> name, score |-> event_best] ELSE best

\* `for event in events` after the skills of the n-th of `total` events.
next_event_or_stats_early(n, total) == IF n < total - 1 THEN "matches" ELSE "stats"

next_event_or_stats(n, total) == IF n < total THEN "matches" ELSE "stats"

\* best_qual: max(self.qual_scores) if self.qual_scores, else the initial 0.
best_of_first(s) == IF s = << >> THEN 0 ELSE s[1]

best_of(s) == IF s = << >> THEN 0 ELSE max(s)

VARIABLES
    tpc,                \* "idle", "matches", "skills", "stats", "done"
    nEvents,            \* len(events) of the team
    event_name,         \* the event bound by `for event in events`
    processed,          \* history: the events processed, with the largest
                        \* qualification score each one brought (<<>>: none)
                        \* and the number of its qualification matches
    team_qual_scores,   \* team.qual_scores
    team_elims_scores,  \* team.elims_scores
    best_event,         \* team.best_event_name, team.best_event_score
    qual_avg,           \* team.qual_avg
    best_qual,          \* team.best_qual
    elims_avg,          \* team.elims_avg
    log                 \* history: the requests, bucket updates and statistics
                        \* of the run, as <<what, team index, event index>>

teamVars ==
    <<tpc, nEvents, event_name, processed, team_qual_scores, team_elims_scores,
      best_event, qual_avg, best_qual, elims_avg>>

\* team = TeamData(team_code)
TeamData ==
    /\ tpc = "idle"
    /\ nEvents = 0
    /\ event_name = ""
    /\ processed = << >>
    /\ team_qual_scores = << >>
    /\ team_elims_scores = << >>
    /\ best_event = [name |-> "", score |-> 0]
    /\ qual_avg = Zero
    /\ best_qual = 0
    /\ elims_avg = Zero

TeamInit == TeamData /\ log = << >>

\* The next team: its aggregate starts as TeamData(team_code).
NewTeamData ==
    /\ tpc' = "idle"
    /\ nEvents' = 0
    /\ event_name' = ""
    /\ processed' = << >>
    /\ team_qual_scores' = << >>
    /\ team_elims_scores' = << >>
    /\ best_event' = [name |-> "", score |-> 0]
    /\ qual_avg' = Zero
    /\ best_qual' = 0
    /\ elims_avg' = Zero

Logged(what, j) == log' = Append(log, <<what, bidx, j>>)

\* An exception of requests.get leaves process_team_data and main.
Crash ==
    /\ bpc' = "crashed"
    /\ UNCHANGED <<main, team_codes, bidx, teams, lookups>>

\* main calls process_team_data, which calls get_team_info (the lookup of the
\* batch loop, one request).
run_get_team_info ==
    /\ BatchLookup
    /\ Logged("request", 0)
    /\ UNCHANGED teamVars

\* events = get_team_events(team_id, season_id).  The unguarded scripts call
\* requests.get outside any try; in the others a failure gives the events
\* read so far.
get_team_events ==
    /\ bpc = "process"
    /\ tpc = "idle"
    /\ Logged("request", 0)
    /\ \E n \in 0..MaxEvents, raised \in BOOLEAN :
          IF raised /\ main \in UnguardedMains
            THEN Crash /\ UNCHANGED teamVars
            ELSE /\ nEvents' = n
                 /\ tpc' = next_event_or_stats(0, n)
                 /\ UNCHANGED <<event_name, processed, team_qual_scores,
                                team_elims_scores, best_event, qual_avg,
                                best_qual, elims_avg>>
                 /\ UNCHANGED batchVars

\* One event, first half: the rankings (final, skills_focused) and the
\* matches (all but skills_focused) of the event are requested, the scores
\* found are added to the team's buckets and the best event is updated.
\* get_match_results of spreadsheet-updater.py calls requests.get outside any
\* try.
process_event_matches ==
    /\ bpc = "process"
    /\ tpc = "matches"
    /\ \E name \in {EventName(Len(processed) + 1)},
          rank \in Rankings, q \in QualLists, e \in ElimLists, raised \in BOOLEAN :
          /\ (main \notin RankingMains => rank = << >>)
          /\ (main \notin MatchMains => q = << >> /\ e = << >>)
          /\ (rank # << >> => Len(q) < MaxEventScores)
          /\ (raised => main = "spreadsheet.main" /\ q = << >> /\ e = << >>)
          /\ IF raised
               THEN /\ Crash
                    /\ Logged("request", Len(processed) + 1)
                    /\ UNCHANGED teamVars
               ELSE LET ranked == IF rank = << >> THEN best_event
                                  ELSE best_event_update(best_event, name, rank[1].high)
                        best == IF q = << >> THEN ranked
                                ELSE best_event_update(ranked, name, max(q))
                        found == (IF rank = << >> THEN {} ELSE {rank[1].high})
                                   \cup {q[i] : i \in DOMAIN q}
                    IN
                    /\ event_name' = name
                    /\ team_qual_scores' =
                         team_qual_scores
                           \o (IF rank = << >> THEN << >> ELSE <<rank[1].avg>>) \o q
                    /\ team_elims_scores' = team_elims_scores \o e
                    /\ best_event' = best
                    /\ processed' =
                         Append(processed,
                                [name |-> name,
                                 best |-> IF found = {} THEN << >>
                                          ELSE <<CHOOSE x \in found :
                                                    \A y \in found : y <= x>>,
                                 nqual |-> Len(q)])
                    /\ log' = log \o << <<"request", bidx, Len(processed) + 1>>,
                                       <<"update", bidx, Len(processed) + 1>> >>
                    /\ tpc' = "skills"
                    /\ UNCHANGED <<nEvents, qual_avg, best_qual, elims_avg>>
                    /\ UNCHANGED batchVars

\* One event, second half: the skills of the event are requested and the
\* event's combined entry is added; then the next event or the statistics.
\* get_skills_results of spreadsheet-updater.py calls requests.get outside any
\* try.
process_event_skills ==
    /\ bpc = "process"
    /\ tpc = "skills"
    /\ \E raised \in BOOLEAN :
          /\ (raised => main = "spreadsheet.main")
          /\ IF raised
               THEN /\ Crash
                    /\ Logged("request", Len(processed))
                    /\ UNCHANGED teamVars
               ELSE /\ log' = log \o << <<"request", bidx, Len(processed)>>,
                                       <<"update", bidx, Len(processed)>> >>
                    /\ tpc' = next_event_or_stats(Len(processed), nEvents)
                    /\ UNCHANGED <<nEvents, event_name, processed, team_qual_scores,
                                   team_elims_scores, best_event, qual_avg,
                                   best_qual, elims_avg>>
                    /\ UNCHANGED batchVars

\* calculate_stats (in the accessors the same lines at the end of
\* process_team_data):
\*   if self.qual_scores: qual_avg = sum / len; best_qual = max
\*   if self.elims_scores: elims_avg = sum / len
calculate_stats ==
    /\ bpc = "process"
    /\ tpc = "stats"
    /\ qual_avg' = average(team_qual_scores)
    /\ best_qual' = best_of(team_qual_scores)
    /\ elims_avg' = average(team_elims_scores)
    /\ Logged("stats", Len(processed))
    /\ tpc' = "done"
    /\ UNCHANGED <<nEvents, event_name, processed, team_qual_scores,
                   team_elims_scores, best_event>>
    /\ UNCHANGED batchVars

\* process_team_data returns the team; main: `if team: teams[code] = team`.
process_team_data_returns ==
    /\ bpc = "process"
    /\ tpc = "done"
    /\ teams' = DictSet(teams, team_codes[bidx], bidx)
    /\ bidx' = bidx + 1
    /\ bpc' = "lookup"
    /\ UNCHANGED <<main, team_codes, lookups>>
    /\ NewTeamData
    /\ UNCHANGED log

\* ------------------------------------------------------------ report builder
\* The teams of one report.
MaxReportTeams == 2

ReportMains == Mains

\* The scripts whose generate_spreadsheet writes a CSV next to the text file.
CsvMains == {"final.main", "skills_focused.main", "accessor.main", "updated.main"}

\* The scripts whose main asks for the sort field.
SortFieldMains == {"final.main", "skills_focused.main"}

SortFields == {"skill_avg", "qual_avg", "best_qual"}

\* A Python number: the int n, or the float n / d (exact, see Div).
PyInt(n) == [type |-> "int", num |-> n, den |-> 1]

PyFloat(n, d) == [type |-> "float", num |-> Div(n, d).num, den |-> Div(n, d).den]

\* a < b and a == b of Python numbers: by value, whatever the types.
Lt(a, b) == a.num * b.den < b.num * a.den

Eq(a, b) == a.num * b.den = b.num * a.den

\* Team codes as entered, character by character.
Letters == {"A", "B", "C"}

ReportCodes == {<<"A">>, <<"B">>, <<"9", "C">>}

\* An average of a TeamData: the initial int 0, or the float of sum / len.
Averages == {PyInt(0), PyFloat(1, 3), PyFloat(1, 1)}

\* best_event_name: empty, or the name of an event (its words).
BestEventNames == {<< >>, <<"Open">>}

\* best_qual of a team with the average q: 0 while there are no qualification
\* scores, their maximum (1 within these averages) otherwise.
BestQualOf(q) == IF q = PyInt(0) THEN PyInt(0) ELSE PyInt(1)

\* The TeamData objects a report is made of; best_event_score is the highest
\* maximum of an event, that is best_qual.
ReportTeamData ==
    {[code |-> c, qual_avg |-> q, best_qual |-> BestQualOf(q), elims_avg |-> e,
      skill_avg |-> k, best_event_name |-> n, best_event_score |-> BestQualOf(q)] :
        c \in ReportCodes, q \in Averages, e \in {PyInt(0), PyFloat(1, 3)},
        k \in Averages, n \in BestEventNames}

\* ---- text of values
\* A token of a line: a number literal (its type and value) or a word.
Number(type, n, d) == [lit |-> type, num |-> n, den |-> d, word |-> << >>]

Word(w) == [lit |-> "word", num |-> 0, den |-> 1, word |-> w]

\* f"{x}": str of an int, repr of a float (the shortest text that reads back
\* as the same float).
str(x) == Number(x.type, x.num, x.den)

\* The hundredths nearest to x >= 0, ties to even, as '%.2f' rounds an exactly
\* represented float.
hundredths(x) ==
    LET q == (100 * x.num) \div x.den
        r == (100 * x.num) % x.den
    IN  IF 2 * r > x.den \/ (2 * r = x.den /\ q % 2 = 1) THEN q + 1 ELSE q

\* f"{x:.2f}"
format_2f(x) == Number("float", Div(hundredths(x), 100).num, Div(hundredths(x), 100).den)

\* The words of a string on a line: line.split() drops an empty string.
Words(w) == IF w = << >> THEN << >> ELSE <<Word(w)>>

\* ---- format_spreadsheet_row
\* final, skills_focused and spreadsheet: the row with event data.
event_format_spreadsheet_row(team) ==
    <<Word(team.code), str(team.qual_avg), str(team.best_qual),
      str(team.elims_avg), str(team.skill_avg),
      Word(team.code), str(team.best_qual)>>
    \o Words(team.best_event_name)
    \o <<str(team.best_event_score),
         Word(team.code), str(team.elims_avg), Word(team.code), str(team.elims_avg),
         Word(team.code), str(team.skill_avg), Word(team.code), str(team.skill_avg)>>

accessor_format_spreadsheet_row(team) ==
    <<Word(team.code), str(team.qual_avg), str(team.best_qual),
      str(team.elims_avg), str(team.skill_avg),
      Word(team.code), str(team.best_qual), Word(team.code), str(team.best_qual),
      Word(team.code), str(team.elims_avg), Word(team.code), str(team.elims_avg),
      Word(team.code), str(team.skill_avg), Word(team.code), str(team.skill_avg)>>

updated_format_spreadsheet_row(team) ==
    <<Word(team.code), format_2f(team.qual_avg), str(team.best_qual),
      format_2f(team.elims_avg), format_2f(team.skill_avg),
      Word(team.code), str(team.best_qual), Word(team.code), str(team.best_qual),
      Word(team.code), format_2f(team.elims_avg), Word(team.code), format_2f(team.elims_avg),
      Word(team.code), format_2f(team.skill_avg), Word(team.code), format_2f(team.skill_avg)>>

format_spreadsheet_row(v, team) ==
    CASE v = "accessor.main" -> accessor_format_spreadsheet_row(team)
      [] v = "updated.main" -> updated_format_spreadsheet_row(team)
      [] OTHER -> event_format_spreadsheet_row(team)

\* ---- the rows of the CSV file: Team, Qual Avg, Best Qual, Elims Avg,
\* Skill Avg, then the columns that repeat them.
final_csv_row(team) ==
    <<Word(team.code), format_2f(team.qual_avg), str(team.best_qual),
      format_2f(team.elims_avg), format_2f(team.skill_avg),
      Word(team.code), str(team.best_qual), Word(team.best_event_name),
      str(team.best_event_score),
      Word(team.code), format_2f(team.elims_avg), Word(team.code), format_2f(team.elims_avg),
      Word(team.code), format_2f(team.skill_avg)>>

skills_focused_csv_row(team) ==
    <<Word(team.code), str(team.qual_avg), str(team.best_qual),
      str(team.elims_avg), str(team.skill_avg),
      Word(team.code), str(team.best_qual), Word(team.best_event_name),
      str(team.best_event_score),
      Word(team.code), str(team.elims_avg), Word(team.code), str(team.elims_avg),
      Word(team.code), str(team.skill_avg)>>

\* accessor and updated: the DataFrame's first five columns, written by
\* to_csv at full precision (the counts and skills columns that follow are of
\* fields no other part of the report reads).
dataframe_csv_row(team) ==
    <<Word(team.code), str(team.qual_avg), str(team.best_qual),
      str(team.elims_avg), str(team.skill_avg)>>

csv_row(v, team) ==
    CASE v = "final.main" -> final_csv_row(team)
      [] v = "skills_focused.main" -> skills_focused_csv_row(team)
      [] OTHER -> dataframe_csv_row(team)

\* ---- sorted(teams.values(), key=..., reverse=True)
\* key(a) < key(b).  updated.main compares the tuples
\* (qual_avg if qual_avg > 0 else 0, skill_avg); the others one field.
updated_sort_key_lt(a, b) ==
    LET qa == IF Lt(PyInt(0), a.qual_avg) THEN a.qual_avg ELSE PyInt(0)
        qb == IF Lt(PyInt(0), b.qual_avg) THEN b.qual_avg ELSE PyInt(0)
    IN  Lt(qa, qb) \/ (Eq(qa, qb) /\ Lt(a.skill_avg, b.skill_avg))

getattr(t, field) ==
    CASE field = "skill_avg" -> t.skill_avg
      [] field = "qual_avg" -> t.qual_avg
      [] field = "best_qual" -> t.best_qual

sort_key_lt(v, field, a, b) ==
    IF v = "updated.main" THEN updated_sort_key_lt(a, b)
    ELSE Lt(getattr(a, field), getattr(b, field))

\* t put into the descending list out behind every element that is not
\* smaller: equal keys stay in the order they arrive.
RECURSIVE insert_descending(_, _, _, _)
insert_descending(v, field, out, t) ==
    IF out = << >> THEN <<t>>
    ELSE IF sort_key_lt(v, field, out[1], t) THEN <<t>> \o out
    ELSE <<out[1]>> \o insert_descending(v, field, Tail(out), t)

\* Python's sorted is stable, also with reverse=True.
RECURSIVE sorted_reverse(_, _, _)
sorted_reverse(v, field, ts) ==
    IF ts = << >> THEN << >>
    ELSE insert_descending(v, field,
                           sorted_reverse(v, field, SubSeq(ts, 1, Len(ts) - 1)),
                           ts[Len(ts)])

\* ---- parse_existing_spreadsheet
\* re.match(r'^[A-Za-z]+', parts[0])
starts_with_letters(tok) == tok.lit = "word" /\ tok.word # << >> /\ tok.word[1] \in Letters

\* float(text) and int(text) raise ValueError on text that is not such a literal.
float_ok(tok) == tok.lit \in {"int", "float"}

int_ok(tok) == tok.lit = "int"

float(tok) == [type |-> "float", num |-> tok.num, den |-> tok.den]

int(tok) == [type |-> "int", num |-> tok.num, den |-> tok.den]

\* teams[code] = team on the dict kept as the list of its values in insertion
\* order.
report_dict_set(ts, team) ==
    IF \E i \in DOMAIN ts : ts[i].code = team.code
      THEN [i \in DOMAIN ts |-> IF ts[i].code = team.code THEN team ELSE ts[i]]
      ELSE Append(ts, team)

\* The body of `for line in f` on the dict read so far.
parse_line(ts, parts) ==
    IF Len(parts) < 5 THEN ts
    ELSE IF ~starts_with_letters(parts[1]) THEN ts
    ELSE IF ~(float_ok(parts[2]) /\ int_ok(parts[3]) /\ float_ok(parts[4]) /\ float_ok(parts[5]))
      THEN ts
    ELSE report_dict_set(ts, [code |-> parts[1].word,
                              qual_avg |-> float(parts[2]),
                              best_qual |-> int(parts[3]),
                              elims_avg |-> float(parts[4]),
                              skill_avg |-> float(parts[5]),
                              best_event_name |-> << >>,
                              best_event_score |-> PyInt(0)])

RECURSIVE parse_lines(_)
parse_lines(lines) ==
    IF lines = << >> THEN << >>
    ELSE parse_line(parse_lines(SubSeq(lines, 1, Len(lines) - 1)), lines[Len(lines)])

VARIABLES
    report_main,    \* the script writing the report, "none" before
    gpc,            \* "collect", "written", "parsed"
    report_teams,   \* the dict teams given to generate_spreadsheet
    sort_by,        \* the sort field, "none" before
    sorted_teams,   \* sorted_teams of generate_spreadsheet
    text_file,      \* the lines of the text file, each the list of its words
    csv_file,       \* the rows of the CSV file below its header
    parsed          \* the dict parse_existing_spreadsheet returns

reportVars == <<report_main, gpc, report_teams, sort_by, sorted_teams,
                text_file, csv_file, parsed>>

ReportInit ==
    /\ report_main = "none"
    /\ gpc = "collect"
    /\ report_teams = << >>
    /\ sort_by = "none"
    /\ sorted_teams = << >>
    /\ text_file = << >>
    /\ csv_file = << >>
    /\ parsed = << >>

\* main: teams[code] = team
ReportInsert ==
    /\ gpc = "collect"
    /\ \E team \in ReportTeamData :
         /\ (Len(report_teams) < MaxReportTeams
               \/ \E i \in DOMAIN report_teams : report_teams[i].code = team.code)
         /\ report_teams' = report_dict_set(report_teams, team)
    /\ UNCHANGED <<report_main, gpc, sort_by, sorted_teams, text_file, csv_file, parsed>>

\* The sort fields the script v can call generate_spreadsheet with.
SortFieldsOf(v) == IF v \in SortFieldMains THEN SortFields ELSE {"qual_avg"}

generate_spreadsheet ==
    /\ gpc = "collect"
    /\ \E v \in ReportMains : \E field \in SortFieldsOf(v) :
         LET st == sorted_reverse(v, field, report_teams)
         IN  /\ report_main' = v
             /\ sort_by' = field
             /\ sorted_teams' = st
             /\ text_file' = [i \in DOMAIN st |-> format_spreadsheet_row(v, st[i])]
             /\ csv_file' = IF v \in CsvMains
                              THEN [i \in DOMAIN st |-> csv_row(v, st[i])]
                              ELSE << >>
    /\ gpc' = "written"
    /\ UNCHANGED <<report_teams, parsed>>

\* spreadsheet.main, mode 1, on a file generate_spreadsheet wrote.
parse_existing_spreadsheet ==
    /\ gpc = "written"
    /\ report_main = "spreadsheet.main"
    /\ parsed' = parse_lines(text_file)
    /\ gpc' = "parsed"
    /\ UNCHANGED <<report_main, report_teams, sort_by, sorted_teams, text_file, csv_file>>

\* ------------------------------------------------------- specifications
vars == <<fetchVars, extractVars, skillsVars, resolveVars, batchVars, teamVars, log, reportVars>>

Init ==
    FetchInit /\ ExtractInit /\ SkillsInit /\ ResolveInit /\ BatchInit /\ TeamInit
    /\ ReportInit

\* One paginated fetch.
NextFetch ==
    \/ FetchStart
         /\ UNCHANGED <<extractVars, skillsVars, resolveVars, batchVars, teamVars, log, reportVars>>
    \/ updated_get_team_events
         /\ UNCHANGED <<extractVars, skillsVars, resolveVars, batchVars, teamVars, log, reportVars>>
    \/ spreadsheet_get_match_results
         /\ UNCHANGED <<extractVars, skillsVars, resolveVars, batchVars, teamVars, log, reportVars>>
    \/ final_get_team_events
         /\ UNCHANGED <<extractVars, skillsVars, resolveVars, batchVars, teamVars, log, reportVars>>
    \/ final_get_team_skills
         /\ UNCHANGED <<extractVars, skillsVars, resolveVars, batchVars, teamVars, log, reportVars>>

SpecFetch == Init /\ [][NextFetch]_vars

\* The matches of one event sorted into the two buckets.
NextExtract ==
    \/ ExtractStart
         /\ UNCHANGED <<fetchVars, skillsVars, resolveVars, batchVars, teamVars, log, reportVars>>
    \/ ExtractFor
         /\ UNCHANGED <<fetchVars, skillsVars, resolveVars, batchVars, teamVars, log, reportVars>>
    \/ ExtractBody
         /\ UNCHANGED <<fetchVars, skillsVars, resolveVars, batchVars, teamVars, log, reportVars>>
    \/ ExtractReturn
         /\ UNCHANGED <<fetchVars, skillsVars, resolveVars, batchVars, teamVars, log, reportVars>>

SpecExtract == Init /\ [][NextExtract]_vars

\* The skills records of one event sorted by type.
NextSkills ==
    \/ SkillsStart
         /\ UNCHANGED <<fetchVars, extractVars, resolveVars, batchVars, teamVars, log, reportVars>>
    \/ SkillsFor
         /\ UNCHANGED <<fetchVars, extractVars, resolveVars, batchVars, teamVars, log, reportVars>>
    \/ SkillsBody
         /\ UNCHANGED <<fetchVars, extractVars, resolveVars, batchVars, teamVars, log, reportVars>>
    \/ SkillsReturn
         /\ UNCHANGED <<fetchVars, extractVars, resolveVars, batchVars, teamVars, log, reportVars>>
    \/ SkillsNextEvent
         /\ UNCHANGED <<fetchVars, extractVars, resolveVars, batchVars, teamVars, log, reportVars>>
    \/ calculate_stats_skills
         /\ UNCHANGED <<fetchVars, extractVars, resolveVars, batchVars, teamVars, log, reportVars>>

SpecSkills == Init /\ [][NextSkills]_vars

\* One call of get_event_matches, with the get_division_matches it calls.
NextResolve ==
    \/ ResolveStart /\ UNCHANGED <<extractVars, skillsVars, batchVars, teamVars, log, reportVars>>
    \/ updated_get_event_details
         /\ UNCHANGED <<extractVars, skillsVars, batchVars, teamVars, log, reportVars>>
    \/ get_event_matches
         /\ UNCHANGED <<extractVars, skillsVars, batchVars, teamVars, log, reportVars>>
    \/ accessor_get_event_divisions
         /\ UNCHANGED <<extractVars, skillsVars, batchVars, teamVars, log, reportVars>>
    \/ updated_get_event_divisions
         /\ UNCHANGED <<extractVars, skillsVars, batchVars, teamVars, log, reportVars>>
    \/ updated_get_team_events
         /\ UNCHANGED <<extractVars, skillsVars, resolveVars, batchVars, teamVars, log, reportVars>>
    \/ final_get_team_skills
         /\ UNCHANGED <<extractVars, skillsVars, resolveVars, batchVars, teamVars, log, reportVars>>
    \/ get_division_matches_returns
         /\ UNCHANGED <<extractVars, skillsVars, batchVars, teamVars, log, reportVars>>
    \/ updated_alt_divisions
         /\ UNCHANGED <<extractVars, skillsVars, batchVars, teamVars, log, reportVars>>
    \/ updated_alt_division_matches
         /\ UNCHANGED <<extractVars, skillsVars, batchVars, teamVars, log, reportVars>>

SpecResolve == Init /\ [][NextResolve]_vars

\* The batch loop of one run of an entry script.
NextBatch ==
    \/ BatchStart
         /\ UNCHANGED <<fetchVars, extractVars, skillsVars, resolveVars, teamVars, log, reportVars>>
    \/ BatchLookup
         /\ UNCHANGED <<fetchVars, extractVars, skillsVars, resolveVars, teamVars, log, reportVars>>
    \/ BatchProcess
         /\ UNCHANGED <<fetchVars, extractVars, skillsVars, resolveVars, teamVars, log, reportVars>>
    \/ BatchDone
         /\ UNCHANGED <<fetchVars, extractVars, skillsVars, resolveVars, teamVars, log, reportVars>>

SpecBatch == Init /\ [][NextBatch]_vars

\* One run of an entry script: the batch loop with process_team_data.
NextRun ==
    \/ BatchStart
         /\ UNCHANGED <<fetchVars, extractVars, skillsVars, resolveVars, teamVars, log, reportVars>>
    \/ run_get_team_info
         /\ UNCHANGED <<fetchVars, extractVars, skillsVars, resolveVars, reportVars>>
    \/ get_team_events
         /\ UNCHANGED <<fetchVars, extractVars, skillsVars, resolveVars, reportVars>>
    \/ process_event_matches
         /\ UNCHANGED <<fetchVars, extractVars, skillsVars, resolveVars, reportVars>>
    \/ process_event_skills
         /\ UNCHANGED <<fetchVars, extractVars, skillsVars, resolveVars, reportVars>>
    \/ calculate_stats
         /\ UNCHANGED <<fetchVars, extractVars, skillsVars, resolveVars, reportVars>>
    \/ process_team_data_returns
         /\ UNCHANGED <<fetchVars, extractVars, skillsVars, resolveVars, reportVars>>
    \/ BatchDone
         /\ UNCHANGED <<fetchVars, extractVars, skillsVars, resolveVars, teamVars, log, reportVars>>

SpecRun == Init /\ [][NextRun]_vars

\* One report: the teams collected, written and, by spreadsheet.main, read back.
NextReport ==
    \/ ReportInsert
         /\ UNCHANGED <<fetchVars, extractVars, skillsVars, resolveVars, batchVars, teamVars, log>>
    \/ generate_spreadsheet
         /\ UNCHANGED <<fetchVars, extractVars, skillsVars, resolveVars, batchVars, teamVars, log>>
    \/ parse_existing_spreadsheet
         /\ UNCHANGED <<fetchVars, extractVars, skillsVars, resolveVars, batchVars, teamVars, log>>

SpecReport == Init /\ [][NextReport]_vars

\* ------------------------------------------------- claims on the fetchers
\* C2: when pages 1..k were read and the request for page k+1 fails, the fetch
\* returns the items of pages 1..k, not an empty list and not an exception
\* (get_team_skills of the updated accessor, get_team_matches and
\* get_team_events of the final calculator).
C2_PartialResultsSurvive ==
    (/\ fetcher \in {"updated.get_team_skills", "final.get_team_matches",
                     "final.get_team_events"}
     /\ fpc \in {"done", "crashed"}
     /\ failPage >= 2)
      => (fpc = "done" /\ fresult = PagesUpTo(ep, size, failPage - 1))

\* C3: one call of api_request issues at most 3 HTTP requests and has returned
\* after the third; the sleep that follows a 429 is the Retry-After value, 5
\* when the header is absent; a call whose every attempt was rate-limited
\* returns None after 3 requests.
C3_RateLimitRetryBounded ==
    /\ api.nreq <= 3
    /\ (api.nreq = 3 => api.pc = "returned")
    /\ (api.last.kind = "rate"
          => api.slept = (IF api.last.ra = << >> THEN 5 ELSE api.last.ra[1]))
    /\ (api.pc = "returned" /\ api.allRate => api.result = None /\ api.nreq = 3)

C3_Witness ==
    /\ api.pc = "returned"
    /\ api.allRate
    /\ api.nreq = 3
    /\ api.last.ra # << >>

\* C4: a 404 ends the api_request call at once with None and no sleep, and the
\* paginated fetch that called it returns normally with the items of the pages
\* read before it (none when the 404 answers the first page).
C4_NotFoundIsEmptyResult ==
    api.last.kind = "notfound"
      => /\ api.pc = "returned"
         /\ api.result = None
         /\ api.slept = 0
         /\ fpc = "done"
         /\ fresult = PagesUpTo(ep, size, page - 1)

C4_Witness ==
    /\ fetcher = "updated.get_division_matches"
    /\ api.last.kind = "notfound"
    /\ page = 2
    /\ fresult = << <<1, 1>> >>

\* C5: while every response is a 200 (with the constant last_page N of the
\* listing), the pages requested are 1, 2, ... in increasing order, each once
\* and none beyond N; the fetch is done exactly when page N was requested, and
\* it returns the concatenation of the N data arrays in page order.
C5_PaginationWalksEveryPage ==
    (fetcher # "none" /\ allOk)
      => /\ reqPages = [i \in 1..Len(reqPages) |-> i]
         /\ Len(reqPages) <= LastPageOf(size)
         /\ (fpc = "done" <=> Len(reqPages) = LastPageOf(size))
         /\ fpc # "crashed"
         /\ (fpc = "done" => fresult = PagesUpTo(ep, size, LastPageOf(size)))

C5_Witness ==
    /\ allOk
    /\ fpc = "done"
    /\ size >= 2
    /\ Len(fresult) = size

\* ------------------------------------------- claims on the score classifier
\* A record with exactly two alliances, the team in exactly one of them, and a
\* round number of 1 or more.
WellFormed(m) ==
    /\ Len(m.alliances) = 2
    /\ TeamAlliances(m) = 1
    /\ round_num(m) >= 1

\* C7: in extract_scores_from_matches of both accessors (round == 1, and round
\* in {1,2}, as qualification), as long as every match lists the team in
\* exactly one alliance, the two buckets together hold one score per input
\* match, less the malformed matches that were skipped.
C7_ClassificationIsPartition ==
    (/\ extractor \in {"accessor.extract_scores_from_matches",
                       "updated.extract_scores_from_matches"}
     /\ onlyOne)
      => Len(qual_scores) + Len(elims_scores) = nIn - nSkippedMalformed

C7_Witness ==
    /\ extractor = "updated.extract_scores_from_matches"
    /\ onlyOne
    /\ xpc = "returned"
    /\ nIn = 2
    /\ nSkippedMalformed = 0
    /\ Len(qual_scores) = 1
    /\ Len(elims_scores) = 1

\* The classifiers that take round == 1 as qualification.
DefaultConvention ==
    {"accessor.extract_scores_from_matches", "final.extract_match_scores",
     "spreadsheet.extract_scores"}

\* The loop body appended one score to bucket b and left the other bucket alone.
AppendedOnlyTo(b) ==
    IF b = "qual"
      THEN /\ Len(qual_scores') = Len(qual_scores) + 1
           /\ SubSeq(qual_scores', 1, Len(qual_scores)) = qual_scores
           /\ elims_scores' = elims_scores
      ELSE /\ Len(elims_scores') = Len(elims_scores) + 1
           /\ SubSeq(elims_scores', 1, Len(elims_scores)) = elims_scores
           /\ qual_scores' = qual_scores

AppendedNothing == qual_scores' = qual_scores /\ elims_scores' = elims_scores

\* C8: under the default convention, a match that is classified (its score is
\* appended) goes to the qualification bucket only when its round number is 1
\* and to the elimination bucket only when its round number is above 1; a
\* well-formed match is classified.
C8_DefaultRoundRule ==
    [][(xpc = "body" /\ extractor \in DefaultConvention)
         => /\ (~AppendedNothing /\ round_num(cur) = 1 => AppendedOnlyTo("qual"))
            /\ (~AppendedNothing /\ round_num(cur) > 1 => AppendedOnlyTo("elims"))
            /\ (WellFormed(cur) => ~AppendedNothing)]_vars

C8_Witness ==
    /\ extractor = "spreadsheet.extract_scores"
    /\ xpc = "returned"
    /\ onlyOne
    /\ nIn = 2
    /\ nSkippedMalformed = 0
    /\ Len(qual_scores) = 1
    /\ Len(elims_scores) = 1

\* C9: in extract_scores_from_matches of the accessor and extract_scores of the
\* spreadsheet updater, a score appended for a match is the score of an
\* alliance of that match that lists the team; a match that lists the team in
\* no alliance appends nothing; a match with two alliances, the team in exactly
\* one and a round number appends exactly that alliance's score; and after a
\* record whose member lists are lists of teams the loop goes on to the next
\* match.
C9_AllianceResolution ==
    [][(/\ xpc = "body"
        /\ extractor \in {"accessor.extract_scores_from_matches",
                          "spreadsheet.extract_scores"})
         => /\ (~AppendedNothing =>
                  \E i \in DOMAIN cur.alliances :
                     /\ team_in(cur.alliances[i])
                     /\ \/ qual_scores' = Append(qual_scores, cur.alliances[i].score)
                        \/ elims_scores' = Append(elims_scores, cur.alliances[i].score))
            /\ (TeamAlliances(cur) = 0 => AppendedNothing)
            /\ ((Len(cur.alliances) = 2 /\ TeamAlliances(cur) = 1 /\ cur.round # << >>)
                  => (AppendedOnlyTo("qual") \/ AppendedOnlyTo("elims")))
            /\ (cur.alliances # NullEntries => xpc' = "for")]_vars

\* A match whose second alliance lists the team was classified with that
\* alliance's score, after a match that lists the team nowhere was skipped.
C9_Witness ==
    /\ extractor = "spreadsheet.extract_scores"
    /\ xpc = "returned"
    /\ nIn = 2
    /\ ~onlyOne
    /\ nSkippedMalformed = 0
    /\ Len(qual_scores) + Len(elims_scores) = 1

\* ------------------------------------------ claims on the skills classifier
\* C10: every skills classifier appends the score of a record to the driver
\* scores when its type is the string "driver" or a nested object with id 1, to
\* the programming scores when it is the string "programming" or a nested
\* object with id 2, and skips a record of any other type.
C10_BothWireFormsAccepted ==
    [][(kpc = "body" /\ classifier \in SkillsClassifiers)
         => /\ (IsDriver(skill)
                  => /\ driver_scores' = Append(driver_scores, skill.score)
                     /\ programming_scores' = programming_scores)
            /\ (IsProgramming(skill)
                  => /\ programming_scores' = Append(programming_scores, skill.score)
                     /\ driver_scores' = driver_scores)
            /\ ((~IsDriver(skill) /\ ~IsProgramming(skill))
                  => /\ driver_scores' = driver_scores
                     /\ programming_scores' = programming_scores)
            /\ kpc' = "for"]_vars

\* --------------------------------------------------- claims on the resolver
\* C1: when the flat listing answers 200 with an empty collection (and every
\* other request is answered 200), get_event_matches returns the concatenation
\* of the match listings of all divisions of the event.
C1_EmptyFlatFallsBack ==
    (/\ rpc = "returned"
     /\ flatKind = "ok"
     /\ flatSize = 0
     /\ rAllOk)
      => matches = DivisionMatches(Len(divSizes))

\* C21: get_event_matches requests the flat listing before any division
\* request, and when the flat listing answers with a non-empty collection it
\* returns exactly that collection and sends no request to the divisions
\* endpoint or to a division's matches.
C21_FirstSuccessWins ==
    /\ (divAsked => flatKind # "none")
    /\ ((flatKind = "ok" /\ flatSize > 0)
          => /\ rpc = "returned"
             /\ matches = JsonBody(FlatEp, flatSize, 1).data
             /\ ~divAsked)

C21_Witness ==
    /\ resolver = "updated.get_event_matches"
    /\ rpc = "returned"
    /\ flatKind = "ok"
    /\ flatSize = MaxDivMatches
    /\ Len(divSizes) = MaxDivs

\* C22: when the flat listing of the team's matches spans more than one page,
\* get_event_matches returns the matches of every page.
C22_ResolverReturnsAllPages ==
    (rpc = "returned" /\ flatKind = "ok" /\ flatSize > 1)
      => matches = PagesUpTo(FlatEp, flatSize, flatSize)

\* Every request but the one for the event details was answered 200 (none
\* but that one was sent when the flat listing was never asked for).
DetailsAside == flatKind = "none" \/ rAllOk

\* C27: in get_event_matches of the updated accessor, whenever the flat
\* listing or a division listing holds matches of the team, the list returned
\* is non-empty, also when the request for the event details fails or returns
\* nothing.
C27_ResultIndependentOfDetails ==
    (/\ resolver = "updated.get_event_matches"
     /\ rpc = "returned"
     /\ DetailsAside
     /\ (flatSize > 0 \/ \E d \in DOMAIN divSizes : divSizes[d] > 0))
      => matches # << >>

\* ------------------------------------------------- claims on the batch loop
\* C6: a team code whose identity lookup fails (empty result, non-200 status or
\* request exception) does not stop the batch at that code and adds no
\* aggregate to the team collection; a batch that has ended has looked up
\* every code.
C6_FailureNeverAbortsBatch ==
    /\ \A i \in DOMAIN lookups :
          lookups[i] # "found"
            => /\ ~(bpc = "crashed" /\ bidx = i)
               /\ \A j \in DOMAIN teams : teams[j].team # i
    /\ (bpc = "done" => Len(lookups) = Len(team_codes))

\* The iterations of the batch loop whose code is c and whose identity lookup
\* resolved.
ResolvedAt(c) == {i \in DOMAIN lookups : team_codes[i] = c /\ lookups[i] = "found"}

First(S) == CHOOSE i \in S : \A j \in S : i <= j

Last(S) == CHOOSE i \in S : \A j \in S : j <= i

\* C29: the team collection the batch loop hands to the report holds at most
\* one aggregate per distinct team code: a code entered twice has a single
\* entry, holding the later aggregate at the position of the first insertion,
\* and the number of entries (one report row each) is the number of distinct
\* codes whose identity resolved.
C29_OneAggregatePerCode ==
    bpc = "done" =>
        /\ \A j, k \in DOMAIN teams : teams[j].code = teams[k].code => j = k
        /\ Len(teams) = Cardinality({c \in Codes : ResolvedAt(c) # {}})
        /\ \A j \in DOMAIN teams :
              /\ ResolvedAt(teams[j].code) # {}
              /\ teams[j].team = Last(ResolvedAt(teams[j].code))
              /\ \A k \in DOMAIN teams :
                    j < k => First(ResolvedAt(teams[j].code))
                               < First(ResolvedAt(teams[k].code))

C29_Witness ==
    /\ main = "final.main"
    /\ bpc = "done"
    /\ team_codes = <<"A", "A">>
    /\ lookups = <<"found", "found">>
    /\ teams = <<[code |-> "A", team |-> 2]>>

\* ------------------------------------------- claims on the combined skills
\* m is the largest element of s, 0 for the empty list.
IsBestOrZero(s, m) ==
    IF s = << >> THEN m = 0
    ELSE (\E i \in DOMAIN s : s[i] = m) /\ (\A i \in DOMAIN s : s[i] <= m)

RECURSIVE Total(_)
Total(s) == IF s = << >> THEN 0 ELSE Total(SubSeq(s, 1, Len(s) - 1)) + s[Len(s)]

\* q is the mean of the list e, 0 for the empty list.
IsMeanOrZero(e, q) ==
    IF e = << >> THEN q.num = 0 /\ q.den = 1
    ELSE q.den > 0 /\ q.num * Len(e) = Total(e) * q.den

\* C11: when the skills records of an event are exhausted, with bd the largest
\* driver score (0 if none) and bp the largest programming score (0 if none),
\* exactly the entry bd + bp is appended to the combined skills when bd and bp
\* are not both zero, and nothing is appended when both are zero, so the mean
\* of the combined skills is then unchanged.
C11_CombinedSkillPerEvent ==
    [][(kpc = "for" /\ kpc' = "returned" /\ classifier \in SkillsClassifiers)
         => \E bd \in 0..MaxScore, bp \in 0..MaxScore :
               /\ IsBestOrZero(driver_scores, bd)
               /\ IsBestOrZero(programming_scores, bp)
               /\ IF bd = 0 /\ bp = 0
                    THEN /\ combined_skills' = combined_skills
                         /\ average(combined_skills') = average(combined_skills)
                    ELSE combined_skills' = Append(combined_skills, bd + bp)]_vars

C11_Witness ==
    /\ kpc = "returned"
    /\ classifier = "accessor.process_team_data"
    /\ driver_scores = <<1, 2>>
    /\ programming_scores = <<0>>
    /\ combined_skills = <<2>>

\* The combined score of an event, 0 when no entry is recorded.
CombinedScore(c) == IF c = << >> THEN 0 ELSE c[1]

\* Replacing one element of s by a larger value.
Raised(s) ==
    UNION {{[s EXCEPT ![i] = v] : v \in (s[i] + 1)..MaxScore} : i \in DOMAIN s}

NeverLowered(c1, c2) ==
    /\ CombinedScore(c2) >= CombinedScore(c1)
    /\ (c1 # << >> => c2 # << >>)

\* C18: for the driver and programming scores of one event, replacing any
\* single score by a larger value never lowers the event's combined score and
\* never turns a recorded combined entry into no entry.
C18_CombinedSkillMonotonic ==
    (kpc = "returned" /\ classifier \in SkillsClassifiers)
      => /\ \A ds \in Raised(driver_scores) :
               NeverLowered(combined_for_event(driver_scores, programming_scores),
                            combined_for_event(ds, programming_scores))
         /\ \A ps \in Raised(programming_scores) :
               NeverLowered(combined_for_event(driver_scores, programming_scores),
                            combined_for_event(driver_scores, ps))

C18_Witness ==
    /\ kpc = "returned"
    /\ classifier = "final.process_team_data"
    /\ driver_scores = <<1, 0>>
    /\ programming_scores = <<1>>
    /\ combined_skills = <<2>>
    /\ combined_for_event(<<1, 2>>, programming_scores) = <<3>>

\* C19: after calculate_stats the team's skill average is the mean of the
\* per-event combined entries (best driver run + best programming run of the
\* event, at most one entry per event), and 0 when there is none.
C19_SkillAverageOverEvents ==
    kpc = "done"
      => /\ Len(eventEntries) <= nSkillEvents
         /\ IsMeanOrZero(eventEntries, skill_avg)

\* ------------------------------------------------ claims on the statistics
\* C12: after calculate_stats, a non-empty qualification (elimination) bucket
\* S has an average with average * len(S) = sum(S), and the best qualification
\* is the largest qualification score; an empty bucket has average 0 and best 0.
C12_SummaryStatistics ==
    tpc = "done"
      => /\ IsMeanOrZero(team_qual_scores, qual_avg)
         /\ IsMeanOrZero(team_elims_scores, elims_avg)
         /\ IsBestOrZero(team_qual_scores, best_qual)

C12_Witness ==
    /\ tpc = "done"
    /\ team_qual_scores = <<0, 1, 2>>
    /\ team_elims_scores = << >>
    /\ qual_avg = [num |-> 1, den |-> 1]
    /\ best_qual = 2
    /\ elims_avg = [num |-> 0, den |-> 1]

\* The best event after the events of the list es, processed in that order.
RECURSIVE BestEventAfter(_)
BestEventAfter(es) ==
    IF es = << >> THEN [name |-> "", score |-> 0]
    ELSE LET before == BestEventAfter(SubSeq(es, 1, Len(es) - 1))
             e == es[Len(es)]
         IN  IF e.best = << >> THEN before
             ELSE best_event_update(before, e.name, e.best[1])

\* The same events in every order.
Reorderings(es) ==
    {[i \in DOMAIN es |-> es[f[i]]] :
        f \in {g \in [DOMAIN es -> DOMAIN es] : \A i, j \in DOMAIN es :
                                                    g[i] = g[j] => i = j}}

\* C13: for the events of a team with their qualification scores, the best
\* event name and score of the finalized team are the same for every order in
\* which the events are processed.
C13_BestEventOrderIndependent ==
    tpc = "done"
      => \A es \in Reorderings(processed) : BestEventAfter(es) = best_event

\* ------------------------------------------------- claims on the best event
\* C23: while the events of a team are processed, the running best event
\* (name, score) is replaced by the current event if and only if the event has
\* at least one qualification score and the largest of them is strictly
\* greater than the running best score; in every other case both fields are
\* left unchanged.
C23_BestEventUpdateRule ==
    [][(tpc \in {"matches", "skills"} /\ bpc' = "process")
         => IF tpc = "matches"
              THEN LET ev == processed'[Len(processed')] IN
                   IF ev.best # << >> /\ ev.best[1] > best_event.score
                     THEN best_event' = [name |-> ev.name, score |-> ev.best[1]]
                     ELSE best_event' = best_event
              ELSE best_event' = best_event]_vars

\* The second event has superseded the first.
C23_Witness ==
    /\ main = "final.main"
    /\ tpc = "skills"
    /\ Len(processed) = 2
    /\ processed[1].best # << >>
    /\ best_event.name = EventName(2)

\* C25: in process_team_data of vexu-data-accessor.py, scores being
\* non-negative, the finalized team has best_event_score equal to best_qual,
\* and when best_event_score > 0 best_event_name is the name of an event whose
\* own largest qualification score is best_event_score.
C25_BestEventIsBestQual ==
    (main = "accessor.main" /\ tpc = "done")
      => /\ best_event.score = best_qual
         /\ (best_event.score > 0
               => \E i \in DOMAIN processed :
                     /\ processed[i].name = best_event.name
                     /\ processed[i].best = <<best_event.score>>)

C25_Witness ==
    /\ main = "accessor.main"
    /\ tpc = "done"
    /\ Len(processed) = 2
    /\ best_event = [name |-> EventName(2), score |-> MaxScore]
    /\ processed[1].best = <<1>>

\* The qualification matches of the events processed so far.
RECURSIVE QualMatches(_)
QualMatches(es) == IF es = << >> THEN 0 ELSE es[1].nqual + QualMatches(Tail(es))

\* C26: in process_team_data of final-robotevents-skills-calculator.py, after
\* the pass over the events qual_scores holds one entry per match classified
\* as qualification, and nothing else.
C26_QualScoresAreQualMatches ==
    (main = "final.main" /\ tpc \in {"stats", "done"})
      => Len(team_qual_scores) = QualMatches(processed)

\* --------------------------------------------------- claims on the sequence
\* C20: in the run's sequence of requests, bucket updates and statistics,
\* everything of team i comes before anything of team i+1, within a team
\* everything of event j comes before anything of event j+1, and the
\* statistics of a team come after its last event and are its last entry.
C20_StrictlySequential ==
    /\ \A i \in 1..(Len(log) - 1) :
          /\ \/ log[i][2] < log[i + 1][2]
             \/ (log[i][2] = log[i + 1][2] /\ log[i][3] <= log[i + 1][3])
          /\ (log[i][1] = "stats" => log[i][2] < log[i + 1][2])
    /\ (tpc = "done"
          => /\ Len(processed) = nEvents
             /\ log[Len(log)] = <<"stats", bidx, nEvents>>
             /\ \A j \in 1..nEvents :
                   \E i \in DOMAIN log : log[i] = <<"update", bidx, j>>)

C20_Witness ==
    /\ bpc = "done"
    /\ main = "accessor.main"
    /\ Len(teams) = 2
    /\ \E i, k \in DOMAIN log :
          /\ i < k
          /\ log[i] = <<"stats", 1, 2>>
          /\ log[k] = <<"update", 2, 2>>

\* ----------------------------------------------------- claims on the report
\* The place of the team named code in the dict ts.
Position(ts, code) == CHOOSE i \in DOMAIN ts : ts[i].code = code

\* b lists the teams of a, each once.
SameTeams(a, b) ==
    /\ Len(a) = Len(b)
    /\ \A i \in DOMAIN a : \E j \in DOMAIN b : b[j] = a[i]

\* C14: the report is sorted descending and stably: generate_spreadsheet
\* orders the teams by the selected key from highest to lowest, and two teams
\* with equal key values keep the relative order in which they were inserted
\* into the team collection.
C14_SortedDescendingStable ==
    gpc # "collect" =>
        /\ SameTeams(report_teams, sorted_teams)
        /\ \A i, j \in DOMAIN sorted_teams :
             i < j =>
               LET a == sorted_teams[i]
                   b == sorted_teams[j]
               IN  /\ ~Lt(getattr(a, sort_by), getattr(b, sort_by))
                   /\ Eq(getattr(a, sort_by), getattr(b, sort_by))
                        => Position(report_teams, a.code) < Position(report_teams, b.code)

\* C15: the two outputs never diverge: the text file and the tabular file of
\* one call list the same teams in the same order, and the qualification
\* average, best qualification, elimination average and skill average written
\* for a team are the same values in both.
C15_OutputsNeverDiverge ==
    (gpc # "collect" /\ report_main \in CsvMains) =>
        /\ Len(text_file) = Len(csv_file)
        /\ \A i \in DOMAIN text_file :
             /\ text_file[i][1] = csv_file[i][1]
             /\ \A k \in 2..5 : Eq(text_file[i][k], csv_file[i][k])

\* C17: report round-trip: a row rendered by format_spreadsheet_row and read
\* back by parse_existing_spreadsheet yields, for every team code, an entry
\* for that code whose qualification average, elimination average and skill
\* average equal the originals to 2 decimal places.
C17_ReportRoundTrip ==
    gpc = "parsed" =>
        \A i \in DOMAIN report_teams :
            \E j \in DOMAIN parsed :
                /\ parsed[j].code = report_teams[i].code
                /\ hundredths(parsed[j].qual_avg) = hundredths(report_teams[i].qual_avg)
                /\ hundredths(parsed[j].elims_avg) = hundredths(report_teams[i].elims_avg)
                /\ hundredths(parsed[j].skill_avg) = hundredths(report_teams[i].skill_avg)

\* ---------------------------------------------- claims on the two alliances
\* C24: a match record that does not reference exactly two alliances (none,
\* one, three or more) contributes no score to the qualification or the
\* elimination bucket of extract_scores_from_matches (accessor) and
\* extract_match_scores (final), and is not fatal.
C24_ExactlyTwoAlliances ==
    [][(/\ xpc = "body"
        /\ extractor \in {"accessor.extract_scores_from_matches",
                          "final.extract_match_scores"}
        /\ Len(cur.alliances) # 2)
         => (AppendedNothing /\ xpc' = "for")]_vars

\* The score s was put at the end of exactly one bucket.
AppendedScore(s) ==
    \/ qual_scores' = Append(qual_scores, s) /\ elims_scores' = elims_scores
    \/ elims_scores' = Append(elims_scores, s) /\ qual_scores' = qual_scores

\* C28: in extract_scores_from_matches (accessor) and extract_scores
\* (spreadsheet) every match contributes at most one score to the two buckets
\* together, also when the team is listed in both alliances: the score of the
\* first alliance listing the team, put at the end of its bucket; hence
\* len(qualification) + len(elimination) <= len(matches).
C28_AtMostOneScorePerMatch ==
    [][(/\ xpc = "body"
        /\ extractor \in {"accessor.extract_scores_from_matches",
                          "spreadsheet.extract_scores"})
         => /\ \/ AppendedNothing
               \/ \E i \in DOMAIN cur.alliances :
                     /\ team_in(cur.alliances[i])
                     /\ \A j \in 1..(i - 1) : ~team_in(cur.alliances[j])
                     /\ AppendedScore(cur.alliances[i].score)
            /\ Len(qual_scores') + Len(elims_scores') <= nIn']_vars

\* Two matches were classified, one of them listing the team in both of its
\* two alliances.
C28_Witness ==
    /\ extractor = "accessor.extract_scores_from_matches"
    /\ xpc = "returned"
    /\ ~onlyOne
    /\ nIn = 2
    /\ Len(qual_scores) + Len(elims_scores) = 2

\* C30: in extract_scores_from_matches of both accessors a match whose round
\* number is absent (read as 0) or not positive contributes its score to
\* neither bucket; only a round number above the qualification rounds puts a
\* score into the elimination bucket.
C30_NoBucketWithoutRound ==
    [][(/\ xpc = "body"
        /\ extractor \in {"accessor.extract_scores_from_matches",
                          "updated.extract_scores_from_matches"})
         => /\ (round_num(cur) < 1 => AppendedNothing)
            /\ (elims_scores' # elims_scores => round_num(cur) > 1)]_vars

\* ------------------------------------------- claims on malformed records
\* A record that misses an expected field or carries one of the wrong shape.
MalformedRecord(m) ==
    \/ m.alliances = << >>
    \/ m.round = << >>
    \/ \E i \in DOMAIN m.alliances : has_null(m.alliances[i])

\* C16: malformed records are never fatal: in extract_scores of the
\* spreadsheet updater and extract_scores_from_matches of the updated accessor
\* a record that misses expected fields or carries a field of the wrong shape
\* is skipped, and the loop goes on to the records after it: no exception
\* leaves the classifier.
C16_MalformedNeverFatal ==
    [][(/\ xpc = "body"
        /\ extractor \in {"spreadsheet.extract_scores",
                          "updated.extract_scores_from_matches"}
        /\ MalformedRecord(cur))
         => (AppendedNothing /\ xpc' = "for")]_vars

====
